---- MODULE Spec2Model ----
(***************************************************************************)
(* StoryOS content versioning and dependency-alert engine.                 *)
(*                                                                         *)
(* State: the rows of the unf_elements, deliverables and                   *)
(* element_dependencies tables, as the services read and write them        *)
(* through the storage adapter.  One action per service operation.         *)
(***************************************************************************)
EXTENDS Integers, Sequences, FiniteSets, TLC

\* ------------------------------------------------------------------------
\* Bounds of the model
\* ------------------------------------------------------------------------
MaxElems == 3
MaxPinElems == 3
MaxDelivs == 1
MaxVersionElems == 2
MaxRoots == 1
MaxVersions == 3
MaxWords == 3
MaxPart == 10
MaxInterruptElems == 2
MaxInterruptDelivs == 2
MaxRaceElems == 3

\* ------------------------------------------------------------------------
\* Input domains
\* ------------------------------------------------------------------------
NoElement == 0
NoDeliverable == 0

\* Python None for an optional input; the default metadata of ElementBase
None == "None"
DefaultMetadata == "m0"

VARIABLES elements, nextElementId, deliverables, nextDeliverableId,
          element_dependencies, lastOp

vars == <<elements, nextElementId, deliverables, nextDeliverableId,
          element_dependencies, lastOp>>

\* ------------------------------------------------------------------------
\* Helpers
\* ------------------------------------------------------------------------
Max(S) == CHOOSE x \in S : \A y \in S : y <= x

Insert(table, id, row) == [i \in DOMAIN table \cup {id} |->
                              IF i = id THEN row ELSE table[i]]

Delete(table, id) == [i \in DOMAIN table \ {id} |-> table[i]]

Result(op, id, arg, result) ==
    [op |-> op, id |-> id, arg |-> arg, result |-> result]

\* the outcome of an operation that tracked element usage, with the rows whose
\* insert was refused and ignored
TrackedResult(op, id, arg, result, ignored) ==
    [op |-> op, id |-> id, arg |-> arg, result |-> result, ignored |-> ignored]

\* ------------------------------------------------------------------------
\* UNFService: elements
\* ------------------------------------------------------------------------

\* get_element: the row, if any
HasElement(id) == id \in DOMAIN elements

\* list_elements(): ids in created_at DESC order are the ids in descending
\* order, since ids are handed out in creation order.

\* create_element: the row inserted from ElementCreate
ElementCreateRow(layer, name, content, version, status) ==
    [layer_id |-> layer, name |-> name, content |-> content,
     version |-> version, status |-> status,
     prev_element_id |-> NoElement, metadata |-> DefaultMetadata]

CreateElement(layer, name, content, version, status) ==
    /\ elements' = Insert(elements, nextElementId,
                          ElementCreateRow(layer, name, content, version, status))
    /\ nextElementId' = nextElementId + 1
    /\ lastOp' = Result("create_element", nextElementId, None, "ok")
    /\ UNCHANGED <<deliverables, nextDeliverableId, element_dependencies>>

\* a draft edit that also bumps the version, as the approved branch does
DraftUpdateRowNewVersion(current, content, metadata) ==
    [current EXCEPT
        !.content = IF content # None THEN content ELSE @,
        !.metadata = IF metadata # None THEN metadata ELSE @,
        !.version = <<@[1], @[2] + 1>>]

\* update_element, draft branch: the fields written in place
DraftUpdateRow(current, content, metadata) ==
    [current EXCEPT
        !.content = IF content # None THEN content ELSE @,
        !.metadata = IF metadata # None THEN metadata ELSE @]

\* a major increment in place of the minor one
NextMajorVersion(version) == <<version[1] + 1, 0>>

\* update_element, approved branch: version_parts[0].(version_parts[1] + 1)
NextMinorVersion(version) == <<version[1], version[2] + 1>>

\* update_element, approved branch: the new draft row
NewDraftRow(element_id, current, content, metadata) ==
    [layer_id |-> current.layer_id,
     name |-> current.name,
     content |-> IF content # None THEN content ELSE current.content,
     version |-> NextMinorVersion(current.version),
     status |-> "draft",
     prev_element_id |-> element_id,
     metadata |-> IF metadata # None THEN metadata ELSE current.metadata]

UpdateElement(element_id, content, metadata) ==
    /\ UNCHANGED <<deliverables, nextDeliverableId, element_dependencies>>
    /\ IF ~HasElement(element_id)
       THEN /\ lastOp' = Result("update_element", element_id, None, "NotFound")
            /\ UNCHANGED <<elements, nextElementId>>
       ELSE LET current == elements[element_id] IN
            CASE current.status = "draft" ->
                   /\ elements' = [elements EXCEPT ![element_id] =
                                      DraftUpdateRow(current, content, metadata)]
                   /\ lastOp' = Result("update_element", element_id, None, "ok")
                   /\ UNCHANGED nextElementId
              [] current.status = "approved" ->
                   IF Len(current.version) < 2
                   THEN \* version_parts[1] raises IndexError
                        /\ lastOp' = Result("update_element", element_id, None,
                                            "IndexError")
                        /\ UNCHANGED <<elements, nextElementId>>
                   ELSE /\ elements' = Insert(elements, nextElementId,
                               NewDraftRow(element_id, current, content, metadata))
                        /\ nextElementId' = nextElementId + 1
                        /\ lastOp' = Result("update_element", element_id,
                                            nextElementId, "ok")
              [] OTHER ->
                   /\ lastOp' = Result("update_element", element_id, None,
                                       "InvalidStateTransition")
                   /\ UNCHANGED <<elements, nextElementId>>

\* delete without the status check
DeleteAllowedAlways(element) == TRUE

\* delete refused for approved elements only
DeleteAllowedUnlessApproved(element) == element.status # "approved"

\* delete_element: only draft elements can be deleted
DeleteAllowed(element) == element.status = "draft"

DeleteElement(element_id) ==
    /\ UNCHANGED <<nextElementId, deliverables, nextDeliverableId,
                   element_dependencies>>
    /\ IF ~HasElement(element_id)
       THEN /\ lastOp' = Result("delete_element", element_id, None, "NotFound")
            /\ UNCHANGED elements
       ELSE IF ~DeleteAllowed(elements[element_id])
       THEN /\ lastOp' = Result("delete_element", element_id, None,
                                "InvalidStateTransition")
            /\ UNCHANGED elements
       ELSE /\ elements' = Delete(elements, element_id)
            /\ lastOp' = Result("delete_element", element_id, None, "ok")

\* approve_element: the first row of list_elements() (created_at DESC) with the
\* same name, status approved and another id; NoElement when there is none
ExistingApproved(element_id) ==
    LET element == elements[element_id]
        found == {i \in DOMAIN elements :
                     /\ elements[i].name = element.name
                     /\ elements[i].status = "approved"
                     /\ i # element_id}
    IN IF found = {} THEN NoElement ELSE Max(found)

\* approve refused for approved elements only
ApproveAllowedUnlessApproved(element) == element.status # "approved"

\* approve_element: only a draft can be approved
ApproveAllowed(element) == element.status = "draft"

ApproveElement(element_id) ==
    /\ UNCHANGED <<nextElementId, deliverables, nextDeliverableId,
                   element_dependencies>>
    /\ IF ~HasElement(element_id)
       THEN /\ lastOp' = Result("approve_element", element_id, None, "NotFound")
            /\ UNCHANGED elements
       ELSE IF ~ApproveAllowed(elements[element_id])
       THEN /\ lastOp' = Result("approve_element", element_id, None,
                                "InvalidStateTransition")
            /\ UNCHANGED elements
       ELSE LET existing_approved == ExistingApproved(element_id) IN
            /\ elements' = [i \in DOMAIN elements |->
                   IF i = element_id
                   THEN [elements[i] EXCEPT !.status = "approved"]
                   ELSE IF i = existing_approved
                   THEN [elements[i] EXCEPT !.status = "superseded"]
                   ELSE elements[i]]
            /\ lastOp' = Result("approve_element", element_id,
                                existing_approved, "ok")

\* get_element_version_chain: ids from element_id back through prev_element_id;
\* the loop stops at a null reference or at a missing row.  fuel bounds the
\* unrolling of the while loop.
RECURSIVE VersionChain(_, _)
VersionChain(element_id, fuel) ==
    IF fuel = 0 \/ element_id = NoElement \/ ~HasElement(element_id)
    THEN <<>>
    ELSE <<element_id>> \o
         VersionChain(elements[element_id].prev_element_id, fuel - 1)


\* ------------------------------------------------------------------------
\* Version strings.  A version is kept as the sequence of its dotted integer
\* parts; VersionString renders it as the characters the code compares.
\* ------------------------------------------------------------------------
RECURSIVE Digits(_)
Digits(n) ==
    IF n < 10 THEN <<48 + n>> ELSE Digits(n \div 10) \o <<48 + (n % 10)>>

RECURSIVE VersionString(_)
VersionString(version) ==
    IF Len(version) = 1 THEN Digits(version[1])
    ELSE Digits(version[1]) \o <<46>> \o VersionString(Tail(version))

\* Python str > str : lexicographic on code points, a proper prefix is smaller
StrGreater(a, b) ==
    \E i \in 1..Len(a) :
        /\ \A j \in 1..(i - 1) : j <= Len(b) /\ a[j] = b[j]
        /\ (i > Len(b) \/ a[i] > b[i])

PadVersion(version, n) ==
    [i \in 1..n |-> IF i <= Len(version) THEN version[i] ELSE 0]

\* Python list > list, on lists of ints of equal length
TupleGreater(a, b) ==
    \E i \in 1..Len(a) :
        /\ \A j \in 1..(i - 1) : a[j] = b[j]
        /\ a[i] > b[i]

\* comparing the parts without padding the shorter list: Python list > list,
\* where a proper prefix is smaller
IsNewerVersionUnpadded(version_a, version_b) ==
    \E i \in 1..Len(version_a) :
        /\ \A j \in 1..(i - 1) : j <= Len(version_b) /\ version_a[j] = version_b[j]
        /\ (i > Len(version_b) \/ version_a[i] > version_b[i])

\* _is_newer_version, on the parsed parts: pad with zeros, compare the lists
IsNewerVersion(version_a, version_b) ==
    LET max_len == IF Len(version_a) > Len(version_b)
                   THEN Len(version_a) ELSE Len(version_b)
    IN TupleGreater(PadVersion(version_a, max_len),
                    PadVersion(version_b, max_len))

\* str.split('.'): the pieces between the dots
RECURSIVE SplitVersion(_)
SplitVersion(str) ==
    IF \A i \in DOMAIN str : str[i] # 46 THEN <<str>>
    ELSE LET dot == CHOOSE i \in DOMAIN str :
                        str[i] = 46 /\ \A j \in 1..(i - 1) : str[j] # 46
         IN <<SubSeq(str, 1, dot - 1)>>
               \o SplitVersion(SubSeq(str, dot + 1, Len(str)))

\* int(x) raises ValueError unless x is a non-empty run of digits
IsInt(str) == str # <<>> /\ \A i \in DOMAIN str : str[i] \in 48..57

RECURSIVE ParseInt(_)
ParseInt(str) ==
    IF str = <<>> THEN 0
    ELSE 10 * ParseInt(SubSeq(str, 1, Len(str) - 1)) + (str[Len(str)] - 48)

\* _is_newer_version(version_a, version_b) on version strings: False when a
\* part is no integer
IsNewerVersionOfStrings(version_a, version_b) ==
    LET pieces_a == SplitVersion(version_a)
        pieces_b == SplitVersion(version_b)
    IN IF /\ \A i \in DOMAIN pieces_a : IsInt(pieces_a[i])
          /\ \A i \in DOMAIN pieces_b : IsInt(pieces_b[i])
       THEN IsNewerVersion([i \in DOMAIN pieces_a |-> ParseInt(pieces_a[i])],
                           [i \in DOMAIN pieces_b |-> ParseInt(pieces_b[i])])
       ELSE FALSE

\* the versions compared: one to three parts, each 0, 1, 2, 9 or MaxPart
VersionParts == {0, 1, 2, 9, MaxPart}

ComparedVersions ==
    [1..1 -> {1, 2}] \cup [1..2 -> VersionParts]
        \cup {<<1, 0, 0>>, <<1, 9, 1>>, <<1, 10, 0>>}

InitCompare ==
    /\ elements = <<>>
    /\ nextElementId = 1
    /\ deliverables = <<>>
    /\ nextDeliverableId = 1
    /\ element_dependencies = {}
    /\ \E version_a \in ComparedVersions, version_b \in ComparedVersions :
           lastOp = Result("call", 0, <<version_a, version_b>>, "pending")

CmIsNewerVersion ==
    /\ lastOp.op = "call"
    /\ lastOp' = Result("is_newer_version", 0, lastOp.arg,
                        IsNewerVersionOfStrings(VersionString(lastOp.arg[1]),
                                                VersionString(lastOp.arg[2])))
    /\ UNCHANGED <<elements, nextElementId, deliverables, nextDeliverableId,
                   element_dependencies>>

NextCompare == CmIsNewerVersion

SpecCompare == InitCompare /\ [][NextCompare]_vars

\* ------------------------------------------------------------------------
\* Reference data the orchestrator reads: one template with two section
\* bindings, its story model (no section strategies, so full_content) and
\* its default voice.
\* ------------------------------------------------------------------------
Templates ==
    [T1 |-> [name |-> "Brief", version |-> "1.0", story_model_id |-> "SM1",
             default_voice_id |-> "V1",
             required_fields |-> <<"who">>,
             section_bindings |->
                 << [section_name |-> "Body", element_ids |-> <<1>>],
                    [section_name |-> "Notes", element_ids |-> <<2>>] >>],
     T2 |-> [name |-> "Memo", version |-> "1.0", story_model_id |-> "SM2",
             default_voice_id |-> "V1",
             required_fields |-> <<>>,
             section_bindings |->
                 << [section_name |-> "Body", element_ids |-> <<1>>],
                    [section_name |-> "Notes", element_ids |-> <<2>>] >>]]

Voices == [V1 |-> [version |-> "1.0", rules |-> TRUE],
           V2 |-> [version |-> "2.0", rules |-> FALSE]]

Range(seq) == {seq[i] : i \in DOMAIN seq}

\* ids of a set as a sequence, newest (highest id) first: created_at DESC
RECURSIVE DescSeq(_)
DescSeq(S) == IF S = {} THEN <<>> ELSE <<Max(S)>> \o DescSeq(S \ {Max(S)})

Min(S) == CHOOSE x \in S : \A y \in S : x <= y

RECURSIVE AscSeq(_)
AscSeq(S) == IF S = {} THEN <<>> ELSE <<Min(S)>> \o AscSeq(S \ {Min(S)})

\* list_elements(): every element id, created_at DESC
ListElements == DescSeq(DOMAIN elements)

RECURSIVE Flatten(_)
Flatten(seqs) == IF seqs = <<>> THEN <<>> ELSE Head(seqs) \o Flatten(Tail(seqs))

\* ------------------------------------------------------------------------
\* DeliverableService
\* ------------------------------------------------------------------------
HasDeliverable(id) == id \in DOMAIN deliverables

\* Deliverable.rendered_content is Dict[str, str]: a stored section value that
\* is a (content, notes) pair is no string
IsStr(value) == DOMAIN value = {"parts", "via"}

\* get_deliverable: Deliverable(**row) validates the row it read
Loadable(row) ==
    \A s \in DOMAIN row.rendered_content : IsStr(row.rendered_content[s])

\* StoryModelComposer, full_content: the bound elements' contents, joined
ComposeSection(bound_elements) ==
    [i \in DOMAIN bound_elements |-> elements[bound_elements[i]].content]

\* VoiceTransformer.apply_voice(content, voice.rules): the rule-based rewrite
ApplyVoice(parts) == [parts |-> parts, via |-> "regex"]

Untransformed(parts) == [parts |-> parts, via |-> "none"]

\* composing without looking at the status of the bound elements
AssembleSectionContentAnyStatus(binding, voice) ==
    LET assembled_content ==
            ComposeSection(SelectSeq(binding.element_ids, HasElement))
    IN [content |-> Untransformed(assembled_content), notes |-> ""]

\* _assemble_section_content: only approved bound elements are composed.  The
\* try block fails before the LLM call (template is no name of that scope), so
\* the except branch runs: the regex transformer, when the voice has rules.
\* Returns the pair (assembled_content, transformation_notes).
AssembleSectionContent(binding, voice) ==
    LET bound_elements == SelectSeq(binding.element_ids,
            LAMBDA id : HasElement(id) /\ elements[id].status = "approved")
        assembled_content == ComposeSection(bound_elements)
    IN IF assembled_content # <<>>
       THEN [content |-> IF voice.rules THEN ApplyVoice(assembled_content)
                         ELSE Untransformed(assembled_content),
             notes |-> "LLM transformation failed"]
       ELSE [content |-> Untransformed(assembled_content), notes |-> ""]

BoundElementIds(template) ==
    UNION {Range(template.section_bindings[i].element_ids) :
              i \in DOMAIN template.section_bindings}

SectionNames(template) ==
    {template.section_bindings[i].section_name :
        i \in DOMAIN template.section_bindings}

BindingOf(template, section_name) ==
    CHOOSE b \in Range(template.section_bindings) :
        b.section_name = section_name

\* pinning that looks at the status of the bound elements
PinnedVersionsApprovedOnly(template) ==
    [id \in {i \in BoundElementIds(template) :
                HasElement(i) /\ elements[i].status = "approved"} |->
        elements[id].version]

\* create_deliverable: element.version of every bound element that exists
PinnedVersions(template) ==
    [id \in {i \in BoundElementIds(template) : HasElement(i)} |->
        elements[id].version]

\* validate_deliverable: one entry per required instance field
ValidationLog(template, instance_data) ==
    [i \in DOMAIN template.required_fields |->
        [rule |-> template.required_fields[i],
         passed |-> template.required_fields[i] \in instance_data]]

\* the rows track_element_usage inserts for the keys of element_versions
TrackedUsage(element_versions, template_id, deliverable_id) ==
    {<<e, template_id, deliverable_id>> : e \in DOMAIN element_versions}

\* get_element_dependencies: the distinct template ids and deliverable ids of
\* the rows of an element
GetElementDependencies(table, element_id) ==
    [templates |-> {row[2] : row \in {r \in table : r[1] = element_id}},
     deliverables |-> {row[3] : row \in {r \in table : r[1] = element_id}}]

\* insert_one("element_dependencies", row): the table holds one row for an
\* (element, template, deliverable) triple, a second insert of it is refused
\* with a duplicate key error (23505)
InsertDependency(table, row) ==
    IF row \in table THEN [table |-> table, error |-> "duplicate"]
    ELSE [table |-> table \cup {row}, error |-> None]

\* a handler that lets every insert error through
IgnoredErrorNever(error) == FALSE

\* track_element_usage, except clause: the errors that are swallowed
IgnoredError(error) == error = "duplicate"

\* track_element_usage for one element: the table afterwards and whether the
\* call raised
TrackElementUsage(table, element_id, deliverable_id, template_id) ==
    LET done == InsertDependency(table,
                                 <<element_id, template_id, deliverable_id>>)
    IN [table |-> done.table,
        raised |-> done.error # None /\ ~IgnoredError(done.error),
        ignored |-> IF done.error # None /\ IgnoredError(done.error)
                    THEN {<<element_id, template_id, deliverable_id>>}
                    ELSE {}]

\* the callers' loop over element_versions.keys(): it ends at the first call
\* that raises
RECURSIVE TrackUsageLoop(_, _, _, _)
TrackUsageLoop(table, element_ids, deliverable_id, template_id) ==
    IF element_ids = <<>>
    THEN [table |-> table, raised |-> FALSE, ignored |-> {}]
    ELSE LET first == TrackElementUsage(table, Head(element_ids),
                                        deliverable_id, template_id)
             rest == TrackUsageLoop(first.table, Tail(element_ids),
                                    deliverable_id, template_id)
         IN IF first.raised THEN first
            ELSE [rest EXCEPT !.ignored = @ \cup first.ignored]

TrackUsage(table, element_versions, deliverable_id, template_id) ==
    TrackUsageLoop(table, AscSeq(DOMAIN element_versions), deliverable_id,
                   template_id)

\* create_deliverable: the row inserted, with an empty validation_log
CreatedRow(template_id, voice_override, instance_data, status) ==
    LET template == Templates[template_id]
        voice_id == IF voice_override # None THEN voice_override
                    ELSE template.default_voice_id
        voice == Voices[voice_id]
        element_versions == PinnedVersions(template)
        rendered_content ==
            [s \in SectionNames(template) |->
                AssembleSectionContent(BindingOf(template, s), voice).content]
        transformation_notes ==
            [s \in {n \in SectionNames(template) :
                       AssembleSectionContent(BindingOf(template, n),
                                              voice).notes # ""} |->
                AssembleSectionContent(BindingOf(template, s), voice).notes]
    IN [name |-> "D", template_id |-> template_id,
        template_version |-> template.version,
        story_model_id |-> template.story_model_id,
        voice_id |-> voice_id, voice_version |-> voice.version,
        instance_data |-> instance_data, status |-> status,
        version |-> 1, prev_deliverable_id |-> NoDeliverable,
        element_versions |-> element_versions,
        rendered_content |-> rendered_content,
        validation_log |-> <<>>,
        metadata |-> [transformation_notes |-> transformation_notes]]

\* create_deliverable: insert, track the pinned elements, validate
CreateDeliverable(template_id, voice_override, instance_data, status) ==
    LET template == Templates[template_id]
        row == [CreatedRow(template_id, voice_override, instance_data, status)
                   EXCEPT !.validation_log =
                              ValidationLog(template, instance_data)]
        tracked == TrackUsage(element_dependencies, row.element_versions,
                              nextDeliverableId, template_id)
    IN /\ deliverables' = Insert(deliverables, nextDeliverableId, row)
       /\ nextDeliverableId' = nextDeliverableId + 1
       /\ element_dependencies' = tracked.table
       /\ lastOp' = TrackedResult("create_deliverable", nextDeliverableId,
                                  None,
                                  IF tracked.raised THEN "APIError" ELSE "ok",
                                  tracked.ignored)
       /\ UNCHANGED <<elements, nextElementId>>

\* _check_for_updates, inner loop: the alerts of one pinned element, those for
\* newer approved elements first, then those for newer drafts
AlertsFor(elem_id, used_version) ==
    LET used_element == elements[elem_id]
        Newer(status) == SelectSeq(ListElements, LAMBDA e :
            /\ elements[e].name = used_element.name
            /\ e # elem_id
            /\ IsNewerVersion(elements[e].version, used_version)
            /\ elements[e].status = status)
        Alert(e, status) ==
            [element_id |-> elem_id, element_name |-> used_element.name,
             old_version |-> used_version, new_version |-> elements[e].version,
             status |-> status]
        newer_approved == Newer("approved")
        newer_draft == Newer("draft")
    IN [i \in DOMAIN newer_approved |->
            Alert(newer_approved[i], "update_available")]
       \o
       [i \in DOMAIN newer_draft |-> Alert(newer_draft[i], "update_pending")]

\* _check_for_updates: pinned elements that no longer exist are skipped
CheckForUpdates(deliverable) ==
    LET pinned == AscSeq(DOMAIN deliverable.element_versions)
    IN Flatten([i \in DOMAIN pinned |->
                  IF HasElement(pinned[i])
                  THEN AlertsFor(pinned[i], deliverable.element_versions[pinned[i]])
                  ELSE <<>>])

\* refresh_deliverable: the blocking alerts
DraftAlerts(deliverable) ==
    SelectSeq(CheckForUpdates(deliverable),
              LAMBDA a : a.status = "update_pending")

\* blocking that does not look at force
RefreshBlockedIgnoringForce(deliverable, force) ==
    DraftAlerts(deliverable) # <<>>

\* refresh_deliverable: blocked unless forced
RefreshBlocked(deliverable, force) ==
    ~force /\ DraftAlerts(deliverable) # <<>>

\* refresh_deliverable: scan of list_elements() for the approved element of
\* that name with the greatest version string, starting from "0.0"
RECURSIVE LatestApprovedScan(_, _, _, _)
LatestApprovedScan(all_elements, name, latest_approved, latest_version) ==
    IF all_elements = <<>> THEN latest_approved
    ELSE LET elem == Head(all_elements) IN
         IF /\ elements[elem].name = name
            /\ elements[elem].status = "approved"
            /\ StrGreater(VersionString(elements[elem].version), latest_version)
         THEN LatestApprovedScan(Tail(all_elements), name, elem,
                                 VersionString(elements[elem].version))
         ELSE LatestApprovedScan(Tail(all_elements), name, latest_approved,
                                 latest_version)

LatestApproved(elem_id) ==
    LatestApprovedScan(ListElements, elements[elem_id].name, NoElement,
                       VersionString(<<0, 0>>))

\* refresh_deliverable: the latest approved elements of one binding
LatestElements(binding) ==
    LET present == SelectSeq(binding.element_ids, HasElement)
        latest == [i \in DOMAIN present |-> LatestApproved(present[i])]
    IN SelectSeq(latest, LAMBDA e : e # NoElement)

RefreshSectionContent(binding, voice) ==
    LET latest_elements == LatestElements(binding) IN
    IF latest_elements # <<>>
    THEN IF voice.rules
         THEN ApplyVoice(ComposeSection(latest_elements))
         ELSE Untransformed(ComposeSection(latest_elements))
    ELSE Untransformed(<<>>)

RefreshedVersions(template) ==
    LET latest == UNION {Range(LatestElements(template.section_bindings[i])) :
                            i \in DOMAIN template.section_bindings}
    IN [id \in latest |-> elements[id].version]

\* a refresh that also counts as a new version
RefreshedRowNewVersion(deliverable, element_versions, rendered_content, voice) ==
    [deliverable EXCEPT !.element_versions = element_versions,
                        !.rendered_content = rendered_content,
                        !.voice_version = voice.version,
                        !.version = @ + 1]

\* a refresh that drops the pins when they are already the latest
RefreshedRowDroppingCurrent(deliverable, element_versions, rendered_content, voice) ==
    [deliverable EXCEPT
        !.element_versions = IF @ = element_versions
                             THEN [e \in {} |-> <<>>] ELSE element_versions,
        !.rendered_content = rendered_content,
        !.voice_version = voice.version]

\* refresh_deliverable: the three fields written to the row
RefreshedRow(deliverable, element_versions, rendered_content, voice) ==
    [deliverable EXCEPT !.element_versions = element_versions,
                        !.rendered_content = rendered_content,
                        !.voice_version = voice.version]

RefreshDeliverable(deliverable_id, force) ==
    /\ UNCHANGED <<elements, nextElementId, nextDeliverableId>>
    /\ IF ~HasDeliverable(deliverable_id)
       THEN /\ lastOp' = Result("refresh_deliverable", deliverable_id, force,
                                "NotFound")
            /\ UNCHANGED <<deliverables, element_dependencies>>
       ELSE LET deliverable == deliverables[deliverable_id] IN
            IF ~Loadable(deliverable)
            THEN /\ lastOp' = Result("refresh_deliverable", deliverable_id,
                                     force, "ValidationError")
                 /\ UNCHANGED <<deliverables, element_dependencies>>
            ELSE
            IF RefreshBlocked(deliverable, force)
            THEN /\ lastOp' = Result("refresh_deliverable", deliverable_id,
                                     force, "BlockedRefresh")
                 /\ UNCHANGED <<deliverables, element_dependencies>>
            ELSE LET template == Templates[deliverable.template_id]
                     voice == Voices[deliverable.voice_id]
                     element_versions == RefreshedVersions(template)
                     rendered_content ==
                         [s \in SectionNames(template) |->
                             RefreshSectionContent(BindingOf(template, s), voice)]
                     tracked == TrackUsage(element_dependencies,
                                           element_versions, deliverable_id,
                                           deliverable.template_id)
                 IN /\ deliverables' = [deliverables EXCEPT ![deliverable_id] =
                           RefreshedRow(@, element_versions, rendered_content,
                                        voice)]
                    /\ element_dependencies' = tracked.table
                    /\ lastOp' = TrackedResult("refresh_deliverable",
                                               deliverable_id, force,
                                               IF tracked.raised
                                               THEN "APIError" ELSE "ok",
                                               tracked.ignored)

\* a request body for update_deliverable: the keys it carries and their values
\* (a value whose key is not carried is never read)
Patch(keys, name, voice_id, story_model_id, template_id, instance_data, status) ==
    [keys |-> keys, name |-> name, voice_id |-> voice_id,
     story_model_id |-> story_model_id, template_id |-> template_id,
     instance_data |-> instance_data, status |-> status]

\* the fields DeliverableUpdate declares
DeliverableUpdateFields ==
    {"name", "voice_id", "story_model_id", "instance_data", "status",
     "rendered_content", "metadata"}

\* DeliverableUpdate(**body).model_dump(exclude_unset, exclude_none): a key
\* that is no field of the model is dropped when the body is parsed
ModelDump(update_data) ==
    [update_data EXCEPT !.keys = @ \cap DeliverableUpdateFields]

\* update_deliverable: needs_rerender
NeedsRerender(data) ==
    \/ "template_id" \in data.keys
    \/ "voice_id" \in data.keys
    \/ "instance_data" \in data.keys
    \/ "story_model_id" \in data.keys

\* compatibility checks that let a story model change pass without a template
IncompatibleOverrideTemplateOnly(data) ==
    /\ "template_id" \in data.keys
    /\ \/ data.template_id \notin DOMAIN Templates
       \/ /\ "story_model_id" \in data.keys
          /\ Templates[data.template_id].story_model_id # data.story_model_id

\* update_deliverable: the story model / template compatibility checks
IncompatibleOverride(data) ==
    \/ "story_model_id" \in data.keys /\ "template_id" \notin data.keys
    \/ /\ "template_id" \in data.keys
       /\ \/ data.template_id \notin DOMAIN Templates
          \/ /\ "story_model_id" \in data.keys
             /\ Templates[data.template_id].story_model_id
                    # data.story_model_id

\* update_deliverable: json.dumps of the loaded validation_log, a list of
\* ValidationLogEntry objects; only the empty list can be encoded
Serializable(validation_log) == validation_log = <<>>

\* update_deliverable: the row of the new version
NewDeliverableRow(deliverable_id, deliverable, data) ==
    LET template_id == IF "template_id" \in data.keys THEN data.template_id
                       ELSE deliverable.template_id
        template == Templates[template_id]
        story_model_id ==
            IF "story_model_id" \in data.keys THEN data.story_model_id
            ELSE IF "template_id" \in data.keys THEN template.story_model_id
            ELSE deliverable.story_model_id
        voice_id == IF "voice_id" \in data.keys THEN data.voice_id
                    ELSE deliverable.voice_id
        voice == Voices[voice_id]
        base == [deliverable EXCEPT
                    !.name = IF "name" \in data.keys THEN data.name ELSE @,
                    !.template_id = template_id,
                    !.story_model_id = story_model_id,
                    !.voice_id = voice_id,
                    !.instance_data = IF "instance_data" \in data.keys
                                      THEN data.instance_data ELSE @,
                    !.status = IF "status" \in data.keys THEN data.status ELSE @,
                    !.version = @ + 1,
                    !.prev_deliverable_id = deliverable_id]
    IN IF NeedsRerender(data)
       THEN [base EXCEPT
                !.template_version = template.version,
                !.voice_version = voice.version,
                !.element_versions = PinnedVersions(template),
                !.rendered_content =
                    [s \in SectionNames(template) |->
                        AssembleSectionContent(BindingOf(template, s), voice)]]
       ELSE base

\* an update that leaves the old row as it was
MarkSupersededSkipped(table, deliverable_id) ==
    table

\* update_deliverable: the old deliverable is marked superseded
MarkSuperseded(table, deliverable_id) ==
    [table EXCEPT ![deliverable_id].status = "superseded"]

UpdateDeliverable(deliverable_id, update_data) ==
    LET data == ModelDump(update_data) IN
    /\ UNCHANGED <<elements, nextElementId>>
    /\ IF ~HasDeliverable(deliverable_id)
       THEN /\ lastOp' = Result("update_deliverable", deliverable_id,
                                update_data, "NotFound")
            /\ UNCHANGED <<deliverables, nextDeliverableId,
                           element_dependencies>>
       ELSE IF ~Loadable(deliverables[deliverable_id])
       THEN /\ lastOp' = Result("update_deliverable", deliverable_id,
                                update_data, "ValidationError")
            /\ UNCHANGED <<deliverables, nextDeliverableId,
                           element_dependencies>>
       ELSE IF IncompatibleOverride(data)
       THEN /\ lastOp' = Result("update_deliverable", deliverable_id,
                                update_data, "ValueError")
            /\ UNCHANGED <<deliverables, nextDeliverableId,
                           element_dependencies>>
       ELSE IF ~Serializable(deliverables[deliverable_id].validation_log)
       THEN /\ lastOp' = Result("update_deliverable", deliverable_id,
                                update_data, "TypeError")
            /\ UNCHANGED <<deliverables, nextDeliverableId,
                           element_dependencies>>
       ELSE LET deliverable == deliverables[deliverable_id]
                row == NewDeliverableRow(deliverable_id, deliverable, data)
                tracked ==
                    IF NeedsRerender(data)
                    THEN TrackUsage(element_dependencies, row.element_versions,
                                    nextDeliverableId, row.template_id)
                    ELSE [table |-> element_dependencies, raised |-> FALSE,
                          ignored |-> {}]
            IN /\ deliverables' =
                      MarkSuperseded(
                          Insert(deliverables, nextDeliverableId, row),
                          deliverable_id)
               /\ nextDeliverableId' = nextDeliverableId + 1
               /\ element_dependencies' = tracked.table
               /\ lastOp' = TrackedResult("update_deliverable",
                                          deliverable_id, update_data,
                                          IF tracked.raised THEN "APIError"
                                          ELSE IF Loadable(row) THEN "ok"
                                          ELSE "ValidationError",
                                          tracked.ignored)

\* a validation that also pins the bound elements anew
ValidateDeliverableRepinning(deliverable_id) ==
    /\ UNCHANGED <<elements, nextElementId, nextDeliverableId,
                   element_dependencies>>
    /\ IF ~HasDeliverable(deliverable_id)
       THEN /\ lastOp' = Result("validate_deliverable", deliverable_id, None,
                                "NotFound")
            /\ UNCHANGED deliverables
       ELSE /\ deliverables' = [deliverables EXCEPT
                   ![deliverable_id].element_versions =
                       PinnedVersions(Templates[deliverables[deliverable_id].template_id])]
            /\ lastOp' = Result("validate_deliverable", deliverable_id,
                                None, "ok")

\* validate_deliverable: rewrites validation_log of the row
ValidateDeliverable(deliverable_id) ==
    /\ UNCHANGED <<elements, nextElementId, nextDeliverableId,
                   element_dependencies>>
    /\ IF ~HasDeliverable(deliverable_id)
       THEN /\ lastOp' = Result("validate_deliverable", deliverable_id, None,
                                "NotFound")
            /\ UNCHANGED deliverables
       ELSE IF ~Loadable(deliverables[deliverable_id])
       THEN /\ lastOp' = Result("validate_deliverable", deliverable_id, None,
                                "ValidationError")
            /\ UNCHANGED deliverables
       ELSE LET deliverable == deliverables[deliverable_id]
                validation_log ==
                    ValidationLog(Templates[deliverable.template_id],
                                  deliverable.instance_data)
            IN /\ deliverables' = [deliverables EXCEPT
                      ![deliverable_id].validation_log = validation_log]
               /\ lastOp' = Result("validate_deliverable", deliverable_id,
                                   validation_log, "ok")

\* get_deliverable_with_alerts: reads only
GetDeliverableWithAlerts(deliverable_id) ==
    /\ UNCHANGED <<elements, nextElementId, deliverables, nextDeliverableId,
                   element_dependencies>>
    /\ IF ~HasDeliverable(deliverable_id)
       THEN lastOp' = Result("get_deliverable_with_alerts", deliverable_id,
                             None, "NotFound")
       ELSE IF ~Loadable(deliverables[deliverable_id])
       THEN lastOp' = Result("get_deliverable_with_alerts", deliverable_id,
                             None, "ValidationError")
       ELSE lastOp' = Result("get_deliverable_with_alerts", deliverable_id,
                             CheckForUpdates(deliverables[deliverable_id]),
                             "ok")

\* list_deliverables(): every deliverable id, created_at DESC
ListDeliverables == DescSeq(DOMAIN deliverables)

\* get_deliverable_versions: next_versions[prev] = d over list_deliverables();
\* a later entry of the list replaces an earlier one with the same prev
NextVersion(id) ==
    LET children == {d \in DOMAIN deliverables :
                        deliverables[d].prev_deliverable_id = id}
    IN IF children = {} THEN NoDeliverable
       ELSE ListDeliverables[
                Max({i \in DOMAIN ListDeliverables :
                        ListDeliverables[i] \in children})]

\* get_deliverable_versions: forward to the one with no next version
RECURSIVE LatestVersion(_)
LatestVersion(current) ==
    IF NextVersion(current) = NoDeliverable THEN current
    ELSE LatestVersion(NextVersion(current))

\* get_deliverable_versions: back along prev_deliverable_id
RECURSIVE TraceBack(_)
TraceBack(current) ==
    IF current = NoDeliverable \/ ~HasDeliverable(current) THEN <<>>
    ELSE <<current>> \o TraceBack(deliverables[current].prev_deliverable_id)

GetDeliverableVersions(deliverable_id) ==
    /\ UNCHANGED <<elements, nextElementId, deliverables, nextDeliverableId,
                   element_dependencies>>
    /\ IF ~HasDeliverable(deliverable_id)
       THEN lastOp' = Result("get_deliverable_versions", deliverable_id,
                             <<>>, "ok")
       ELSE IF \E d \in DOMAIN deliverables : ~Loadable(deliverables[d])
       THEN lastOp' = Result("get_deliverable_versions", deliverable_id,
                             None, "ValidationError")
       ELSE lastOp' = Result("get_deliverable_versions", deliverable_id,
                             TraceBack(LatestVersion(deliverable_id)), "ok")

\* ------------------------------------------------------------------------
\* Specifications
\* ------------------------------------------------------------------------
Init ==
    /\ elements = <<>>
    /\ nextElementId = 1
    /\ deliverables = <<>>
    /\ nextDeliverableId = 1
    /\ element_dependencies = {}
    /\ lastOp = Result("init", 0, None, "ok")

\* ids a client can name: every id handed out so far
KnownElementIds == 1..(nextElementId - 1)
KnownDeliverableIds == 1..(nextDeliverableId - 1)

\* an update that inserts a row (the bound on rows applies to it)
WouldInsert(id) == HasElement(id) /\ elements[id].status = "approved"

\* Element lifecycle alone.  ElementCreate inputs as (layer_id, version, status);
\* the name is the same throughout, so lineages differ by layer.
LifecycleCreates ==
    { <<"L1", <<1, 0>>, "draft">>, <<"L1", <<1, 0>>, "approved">>,
      <<"L2", <<1, 0>>, "draft">>, <<"L2", <<1, 0>>, "approved">>,
      <<"L1", <<2>>, "approved">>, <<"L2", <<1, 0>>, "archived">> }
\* ElementUpdate inputs as (content, metadata)
LifecycleUpdates == {<<"c1", "m1">>, <<None, None>>}

LcCreateElement ==
    /\ nextElementId <= MaxElems
    /\ \E in \in LifecycleCreates :
           CreateElement(in[1], "A", "c0", in[2], in[3])

LcUpdateElement ==
    \E id \in KnownElementIds, upd \in LifecycleUpdates :
        /\ WouldInsert(id) => nextElementId <= MaxElems
        /\ UpdateElement(id, upd[1], upd[2])

LcDeleteElement == \E id \in KnownElementIds : DeleteElement(id)

LcApproveElement == \E id \in KnownElementIds : ApproveElement(id)

NextLifecycle ==
    \/ LcCreateElement
    \/ LcUpdateElement
    \/ LcDeleteElement
    \/ LcApproveElement

SpecLifecycle == Init /\ [][NextLifecycle]_vars

\* Elements and deliverables together: elements are created approved, drafts
\* come from updates
PinCreates ==
    { <<"L1", <<1, 9>>, "approved">>, <<"L1", <<1, 10>>, "approved">>,
      <<"L2", <<1, 10>>, "approved">> }

DoCreateElement ==
    /\ nextElementId <= MaxPinElems
    /\ \E in \in PinCreates :
           CreateElement(in[1], "A", "c0", in[2], in[3])

DoUpdateElement ==
    \E id \in KnownElementIds :
        /\ WouldInsert(id) => nextElementId <= MaxPinElems
        /\ UpdateElement(id, "c1", None)

DoDeleteElement == \E id \in KnownElementIds : DeleteElement(id)

DoApproveElement == \E id \in KnownElementIds : ApproveElement(id)

DoCreateDeliverable ==
    /\ nextDeliverableId <= MaxDelivs
    /\ \E template_id \in DOMAIN Templates :
           CreateDeliverable(template_id, None, {"who"}, "draft")

DoRefreshDeliverable ==
    \E id \in KnownDeliverableIds, force \in BOOLEAN :
        RefreshDeliverable(id, force)

DoValidateDeliverable ==
    \E id \in KnownDeliverableIds : ValidateDeliverable(id)

DoGetDeliverableWithAlerts ==
    \E id \in KnownDeliverableIds : GetDeliverableWithAlerts(id)

DoGetDeliverableVersions ==
    \E id \in KnownDeliverableIds : GetDeliverableVersions(id)

Next ==
    \/ DoCreateElement
    \/ DoUpdateElement
    \/ DoDeleteElement
    \/ DoApproveElement
    \/ DoCreateDeliverable
    \/ DoRefreshDeliverable
    \/ DoValidateDeliverable
    \/ DoGetDeliverableWithAlerts
    \/ DoGetDeliverableVersions

Spec == Init /\ [][Next]_vars

\* Deliverable versions: elements are created in any status and approved, so
\* that composing meets elements of every status
VersionCreates ==
    { <<"L1", <<1, 9>>, "draft">>, <<"L1", <<1, 9>>, "approved">>,
      <<"L1", <<1, 10>>, "archived">> }

\* the content given to the next element: consecutive elements differ
NextContent == IF nextElementId % 2 = 1 THEN "c0" ELSE "c1"

VsCreateElement ==
    /\ nextElementId <= MaxVersionElems
    /\ \E in \in VersionCreates :
           CreateElement(in[1], "A", NextContent, in[2], in[3])

VsApproveElement == \E id \in KnownElementIds : ApproveElement(id)

\* DeliverableCreate inputs: template and instance_data, with and without the
\* field that template T1 requires
DeliverableCreates == {<<"T1", {"who"}>>, <<"T1", {}>>, <<"T2", {"who"}>>}

VsCreateDeliverable ==
    /\ nextDeliverableId <= MaxRoots
    /\ \E in \in DeliverableCreates :
           CreateDeliverable(in[1], None, in[2], "draft")

\* DeliverableUpdate inputs
Patches ==
    { Patch({"name"}, "D2", "V1", "SM1", "T1", {}, "draft"),
      Patch({"voice_id"}, "D", "V2", "SM1", "T1", {}, "draft"),
      Patch({"story_model_id"}, "D", "V1", "SM2", "T1", {}, "draft"),
      Patch({"template_id", "name"}, "D2", "V1", "SM1", "T1", {}, "draft"),
      Patch({"template_id", "story_model_id"}, "D", "V1", "SM2", "T2", {},
            "draft"),
      Patch({"template_id", "story_model_id"}, "D", "V1", "SM2", "T1", {},
            "draft") }

\* an update that inserts a row (the bound on rows applies to it)
WouldInsertDeliverable(id, update_data) ==
    /\ HasDeliverable(id)
    /\ Loadable(deliverables[id])
    /\ ~IncompatibleOverride(ModelDump(update_data))
    /\ Serializable(deliverables[id].validation_log)

VsUpdateDeliverable ==
    \E id \in KnownDeliverableIds, data \in Patches :
        /\ WouldInsertDeliverable(id, data) => nextDeliverableId <= MaxVersions
        /\ UpdateDeliverable(id, data)

VsRefreshDeliverable ==
    \E id \in KnownDeliverableIds : RefreshDeliverable(id, TRUE)

VsGetDeliverableVersions ==
    \E id \in KnownDeliverableIds : GetDeliverableVersions(id)

NextVersions ==
    \/ VsCreateElement
    \/ VsApproveElement
    \/ VsCreateDeliverable
    \/ VsUpdateDeliverable
    \/ VsRefreshDeliverable
    \/ VsGetDeliverableVersions

SpecVersions == Init /\ [][NextVersions]_vars

\* ------------------------------------------------------------------------
\* LLMVoiceTransformer and TransformationProfiles
\* ------------------------------------------------------------------------
\* TransformationProfiles.PROFILES: apply_voice of each profile
PROFILES ==
    [preserve |-> [name |-> "Preserve", apply_voice |-> FALSE],
     reduce_only |-> [name |-> "Reduce Only", apply_voice |-> FALSE],
     voice_constrained |-> [name |-> "Voice Constrained", apply_voice |-> TRUE],
     voice_formatted |-> [name |-> "Voice Formatted", apply_voice |-> TRUE],
     voice_full |-> [name |-> "Voice Full", apply_voice |-> TRUE]]

\* TransformationProfiles.SECTION_TYPE_MAPPINGS, one section of each profile
SECTION_TYPE_MAPPINGS ==
    [Quote |-> "preserve", About |-> "reduce_only",
     Headline |-> "voice_constrained", List |-> "voice_formatted",
     Body |-> "voice_full"]

\* TransformationProfiles.get_profile_for_section: template override, then
\* story model override, then the section's mapping, then VOICE_FULL
GetProfileForSection(section_name, story_model_override, template_override) ==
    LET profile_type ==
            IF template_override # None THEN template_override
            ELSE IF story_model_override # None THEN story_model_override
            ELSE IF section_name \in DOMAIN SECTION_TYPE_MAPPINGS
                 THEN SECTION_TYPE_MAPPINGS[section_name]
            ELSE "voice_full"
    IN PROFILES[profile_type]

\* LLMVoiceTransformer.apply_voice_with_profile: call holds the arguments
\* (content is a sequence of words), response is what
\* llm_client.transform_content does when it is called.  Returns the pair (content, notes) and whether the external service
\* was called (it is given the voice configuration in its prompt).
ApplyVoiceWithProfile(call, response) ==
    LET content == call.content
        constraints == call.constraints
        use_llm == call.use_llm
        profile == GetProfileForSection(call.section_name,
                                        call.story_model_override,
                                        call.template_override)
        unchanged == [content |-> content, notes |-> "", llm_called |-> FALSE]
        failed == [content |-> content, notes |-> "", llm_called |-> TRUE]
    IN IF ~use_llm THEN unchanged
       ELSE IF content = <<>> THEN unchanged
       ELSE IF ~profile.apply_voice
       THEN IF /\ "max_words" \in constraints.keys
               /\ Len(content) > constraints.max_words
            THEN IF response.raised THEN failed
                 ELSE [content |-> response.text, notes |-> response.notes,
                       llm_called |-> TRUE]
            ELSE unchanged
       ELSE IF response.raised THEN failed
       ELSE IF response.parseable
            THEN [content |-> response.text, notes |-> response.notes,
                  llm_called |-> TRUE]
       ELSE [content |-> content, notes |-> "JSON parsing failed",
             llm_called |-> TRUE]

\* texts of up to MaxWords words
Contents == UNION {[1..n -> {"w"}] : n \in 0..MaxWords}

\* section constraints, with and without max_words
SectionConstraints ==
    {[keys |-> {}, max_words |-> 0], [keys |-> {"max_words"}, max_words |-> 1],
     [keys |-> {"max_words"}, max_words |-> 2]}

\* what a call of the external service does: it raises, it answers with a
\* text and notes, or it answers with something that does not parse
LLMResponses ==
    {[raised |-> TRUE, text |-> <<>>, notes |-> "", parseable |-> FALSE],
     [raised |-> FALSE, text |-> <<"x">>, notes |-> "n", parseable |-> TRUE],
     [raised |-> FALSE, text |-> <<"x">>, notes |-> "", parseable |-> FALSE]}

\* the calls of apply_voice_with_profile: every combination of the inputs
TransformCalls ==
    [content : Contents,
     section_name : DOMAIN SECTION_TYPE_MAPPINGS \cup {"Other"},
     constraints : SectionConstraints,
     story_model_override : {None, "preserve", "reduce_only"},
     template_override : {None, "preserve", "voice_full"},
     use_llm : BOOLEAN]

InitTransform ==
    /\ elements = <<>>
    /\ nextElementId = 1
    /\ deliverables = <<>>
    /\ nextDeliverableId = 1
    /\ element_dependencies = {}
    /\ \E call \in TransformCalls :
           lastOp = Result("call", 0, call, "pending")

TfApplyVoiceWithProfile ==
    /\ lastOp.op = "call"
    /\ \E response \in LLMResponses :
           lastOp' = Result("apply_voice_with_profile", 0, lastOp.arg,
                            ApplyVoiceWithProfile(lastOp.arg, response))
    /\ UNCHANGED <<elements, nextElementId, deliverables,
                   nextDeliverableId, element_dependencies>>

NextTransform == TfApplyVoiceWithProfile

SpecTransform == InitTransform /\ [][NextTransform]_vars

\* ------------------------------------------------------------------------
\* StoryModelComposer.  A text is the sequence of its pieces (words,
\* separators, {field} placeholders); the empty string is the empty sequence.
\* instance_data holds the set of its keys and the value of each key.
\* ------------------------------------------------------------------------
FieldNames == <<"who", "what", "when", "where", "why", "product">>

\* f"{{{field_name}}}"
Placeholder ==
    [who |-> "{who}", what |-> "{what}", when |-> "{when}",
     where |-> "{where}", why |-> "{why}", product |-> "{product}"]

\* str.replace(placeholder, value): every occurrence is replaced
Replace(text, placeholder, value) ==
    Flatten([i \in DOMAIN text |->
                IF text[i] = placeholder THEN value ELSE <<text[i]>>])

\* placeholder in content
Contains(text, piece) == \E i \in DOMAIN text : text[i] = piece

\* instance_data.get(field, default)
Get(instance_data, field, default) ==
    IF field \in instance_data.keys THEN instance_data.value[field]
    ELSE default

\* for field_name, field_value in instance_data.items():
\*     content = content.replace(placeholder, str(field_value))
RECURSIVE InjectFields(_, _, _)
InjectFields(content, instance_data, fields) ==
    IF fields = <<>> THEN content
    ELSE LET field == Head(fields)
             injected == IF field \in instance_data.keys
                         THEN Replace(content, Placeholder[field],
                                      instance_data.value[field])
                         ELSE content
         IN InjectFields(injected, instance_data, Tail(fields))

\* the lede both strategies start from: WHERE, WHEN -- WHO WHAT
LedeHead(who, what, when, where) ==
    IF where # <<>> /\ when # <<>>
    THEN where \o <<", ">> \o when \o <<" -- ">> \o who \o <<" ">> \o what
    ELSE IF when # <<>>
    THEN when \o <<" -- ">> \o who \o <<" ">> \o what
    ELSE who \o <<" ">> \o what

\* _extract_five_ws
ExtractFiveWs(bound_elements, instance_data) ==
    LET element_content == IF bound_elements # <<>> THEN bound_elements[1].content
                           ELSE <<>>
        who == Get(instance_data, "who", <<"The company">>)
        what == Get(instance_data, "what", <<"announces news">>)
        when == Get(instance_data, "when", <<"today">>)
        where == Get(instance_data, "where", <<>>)
        why == Get(instance_data, "why", <<>>)
    IN IF Contains(element_content, "{who}")
          \/ Contains(element_content, "{what}")
       THEN InjectFields(element_content, instance_data, FieldNames)
       ELSE LedeHead(who, what, when, where)
               \o (IF why # <<>> THEN <<".", " ">> \o why ELSE <<>>)
               \o <<".">>

\* strategy['composition_sources'] of the lede: the five W fields and the
\* element named Vision Statement
CompositionSources ==
    <<[from |-> "instance_data", name |-> "who"],
      [from |-> "instance_data", name |-> "what"],
      [from |-> "instance_data", name |-> "when"],
      [from |-> "instance_data", name |-> "where"],
      [from |-> "instance_data", name |-> "why"],
      [from |-> "element", name |-> "Vision Statement"]>>

\* _compose_with_llm, the context: the value of every instance_data source
\* ('' when the field is absent) and the content of the first element of the
\* name of every element source that has one
ContextValue(source, bound_elements, instance_data) ==
    IF source.from = "instance_data"
    THEN Get(instance_data, source.name, <<>>)
    ELSE LET matching == SelectSeq(bound_elements,
                                   LAMBDA e : e.name = source.name)
         IN IF matching # <<>> THEN matching[1].content ELSE <<>>

InContext(source, bound_elements) ==
    \/ source.from = "instance_data"
    \/ \E i \in DOMAIN bound_elements : bound_elements[i].name = source.name

\* '\n\n'.join of the non-empty texts
RECURSIVE JoinParagraphs(_)
JoinParagraphs(texts) ==
    IF texts = <<>> THEN <<>>
    ELSE IF Len(texts) = 1 THEN texts[1]
    ELSE texts[1] \o <<"\n\n">> \o JoinParagraphs(Tail(texts))

\* _compose_with_llm
ComposeWithLlm(bound_elements, instance_data, composition_sources) ==
    LET sources == SelectSeq(composition_sources,
                             LAMBDA src : InContext(src, bound_elements))
        value(name) ==
            LET found == SelectSeq(sources, LAMBDA src : src.name = name)
            IN IF found # <<>>
               THEN ContextValue(found[1], bound_elements, instance_data)
               ELSE <<>>
        has(name) == \E i \in DOMAIN sources : sources[i].name = name
        vision == value("Vision Statement")
        why == value("why")
    IN IF composition_sources = <<>> THEN <<>>
       ELSE IF \A k \in {"who", "what", "when", "where", "why"} : has(k)
       THEN LedeHead(value("who"), value("what"), value("when"),
                     value("where"))
               \o (IF why # <<>> THEN <<" ">> \o why ELSE <<>>)
               \o <<".">>
               \o (IF vision # <<>> THEN <<" ", "\n\n">> \o vision
                   ELSE <<>>)
       ELSE JoinParagraphs(
                SelectSeq([i \in DOMAIN sources |->
                              ContextValue(sources[i], bound_elements,
                                           instance_data)],
                          LAMBDA v : v # <<>>))

\* _extract_full_content: the fields are injected into an element's content
\* only when it holds one of {who} {what} {when} {where} {why} (or a
\* {quote...} placeholder, which none of the contents here has)
ExtractFullContent(bound_elements, instance_data) ==
    LET used == SelectSeq(bound_elements, LAMBDA e : e.content # <<>>)
        injects(content) ==
            /\ instance_data.keys # {}
            /\ \E f \in {"who", "what", "when", "where", "why"} :
                   Contains(content, Placeholder[f])
    IN JoinParagraphs(
           [i \in DOMAIN used |->
               IF injects(used[i].content)
               THEN InjectFields(used[i].content, instance_data, FieldNames)
               ELSE used[i].content])

\* compose_section: the strategies five_ws, composed and full_content
ComposeSectionWith(strategy, bound_elements, instance_data) ==
    IF strategy = "composed"
    THEN ComposeWithLlm(bound_elements, instance_data, CompositionSources)
    ELSE IF strategy = "five_ws"
    THEN ExtractFiveWs(bound_elements, instance_data)
    ELSE ExtractFullContent(bound_elements, instance_data)

\* the values of the fields when present; where and why may also be present
\* and empty
FieldValue ==
    [who |-> <<"Acme">>, what |-> <<"ships v2">>, when |-> <<"today">>,
     where |-> <<"Paris">>, why |-> <<"to grow">>, product |-> <<"v2">>]

InstanceDatas ==
    {[keys |-> keys,
      value |-> [f \in DOMAIN FieldValue |->
                    IF f \in blank THEN <<>> ELSE FieldValue[f]]] :
        keys \in SUBSET DOMAIN FieldValue, blank \in SUBSET {"where", "why"}}

\* bound element contents, without and with placeholders
ElementContents ==
    {<<"Plain">>, <<"Hi ", "{who}", " from ", "{product}">>,
     <<"Buy ", "{product}", " and ", "{product}">>}

ComposeCalls ==
    [strategy : {"five_ws", "composed", "full_content"},
     bound_elements : {<<[name |-> n, content |-> c]>> :
                          n \in {"Vision Statement", "A"},
                          c \in ElementContents},
     instance_data : {d \in InstanceDatas :
                         \A f \in DOMAIN FieldValue :
                             d.value[f] = <<>> => f \in d.keys}]

InitCompose ==
    /\ elements = <<>>
    /\ nextElementId = 1
    /\ deliverables = <<>>
    /\ nextDeliverableId = 1
    /\ element_dependencies = {}
    /\ \E call \in ComposeCalls : lastOp = Result("call", 0, call, "pending")

CpComposeSection ==
    /\ lastOp.op = "call"
    /\ lastOp' = Result("compose_section", 0, lastOp.arg,
                        ComposeSectionWith(lastOp.arg.strategy,
                                           lastOp.arg.bound_elements,
                                           lastOp.arg.instance_data))
    /\ UNCHANGED <<elements, nextElementId, deliverables, nextDeliverableId,
                   element_dependencies>>

NextCompose == CpComposeSection

SpecCompose == InitCompose /\ [][NextCompose]_vars

\* ------------------------------------------------------------------------
\* Interrupted operations: every store write of create_deliverable,
\* update_deliverable, refresh_deliverable and approve_element is a step of
\* its own, and an operation can be abandoned between two of its writes.
\* lastOp.result tells how far the operation in progress has come.
\* ------------------------------------------------------------------------
Running == lastOp.result \in {"inserted", "superseding", "tracking"}

ItCreateElement ==
    /\ ~Running
    /\ nextElementId <= MaxInterruptElems
    /\ CreateElement("L1", "A", NextContent, <<1, 0>>, "draft")

\* approve_element, first write: the approved element of the name is
\* superseded
ItApproveSupersede ==
    /\ ~Running
    /\ \E id \in KnownElementIds :
           /\ ApproveAllowed(elements[id])
           /\ ExistingApproved(id) # NoElement
           /\ elements' = [elements EXCEPT
                              ![ExistingApproved(id)].status = "superseded"]
           /\ lastOp' = Result("approve_element", id, ExistingApproved(id),
                               "superseding")
    /\ UNCHANGED <<nextElementId, deliverables, nextDeliverableId,
                   element_dependencies>>

\* approve_element, last write: the draft is approved
ItApproveApprove ==
    /\ \E id \in KnownElementIds :
           /\ \/ /\ ~Running
                 /\ ApproveAllowed(elements[id])
                 /\ ExistingApproved(id) = NoElement
              \/ /\ lastOp.op = "approve_element"
                 /\ lastOp.result = "superseding"
                 /\ lastOp.id = id
           /\ elements' = [elements EXCEPT ![id].status = "approved"]
           /\ lastOp' = Result("approve_element", id,
                               IF Running THEN lastOp.arg ELSE NoElement, "ok")
    /\ UNCHANGED <<nextElementId, deliverables, nextDeliverableId,
                   element_dependencies>>

\* create_deliverable, first write: the row, with an empty validation_log
ItCreateInsert ==
    /\ ~Running
    /\ nextDeliverableId <= MaxRoots
    /\ \E in \in DeliverableCreates :
           deliverables' = Insert(deliverables, nextDeliverableId,
                                  CreatedRow(in[1], None, in[2], "draft"))
    /\ nextDeliverableId' = nextDeliverableId + 1
    /\ lastOp' = Result("create_deliverable", nextDeliverableId, None,
                        "tracking")
    /\ UNCHANGED <<elements, nextElementId, element_dependencies>>

\* the row whose pinned elements the operation in progress tracks
TrackTarget ==
    IF lastOp.op = "update_deliverable" THEN nextDeliverableId - 1
    ELSE lastOp.id

\* the keys of element_versions the tracking loop has yet to record
PendingUsage ==
    {e \in DOMAIN deliverables[TrackTarget].element_versions :
        <<e, deliverables[TrackTarget].template_id, TrackTarget>>
            \notin element_dependencies}

\* one track_element_usage call of the tracking loop
ItTrack ==
    /\ lastOp.result = "tracking"
    /\ PendingUsage # {}
    /\ element_dependencies' =
           TrackElementUsage(element_dependencies, Min(PendingUsage),
                             TrackTarget,
                             deliverables[TrackTarget].template_id).table
    /\ UNCHANGED <<elements, nextElementId, deliverables, nextDeliverableId,
                   lastOp>>

\* create_deliverable, last write: validate_deliverable stores the log
ItValidate ==
    /\ lastOp.op = "create_deliverable"
    /\ lastOp.result = "tracking"
    /\ PendingUsage = {}
    /\ deliverables' = [deliverables EXCEPT ![lastOp.id].validation_log =
           ValidationLog(Templates[deliverables[lastOp.id].template_id],
                         deliverables[lastOp.id].instance_data)]
    /\ lastOp' = [lastOp EXCEPT !.result = "ok"]
    /\ UNCHANGED <<elements, nextElementId, nextDeliverableId,
                   element_dependencies>>

\* update_deliverable and refresh_deliverable return after their tracking
\* loop
ItReturn ==
    /\ lastOp.op \in {"update_deliverable", "refresh_deliverable"}
    /\ lastOp.result = "tracking"
    /\ PendingUsage = {}
    /\ lastOp' = [lastOp EXCEPT !.result =
                      IF Loadable(deliverables[TrackTarget]) THEN "ok"
                      ELSE "ValidationError"]
    /\ UNCHANGED <<elements, nextElementId, deliverables, nextDeliverableId,
                   element_dependencies>>

\* update_deliverable, first write: the new row
ItUpdateInsert ==
    /\ ~Running
    /\ nextDeliverableId <= MaxInterruptDelivs
    /\ \E id \in KnownDeliverableIds, data \in Patches :
           /\ WouldInsertDeliverable(id, data)
           /\ deliverables' =
                  Insert(deliverables, nextDeliverableId,
                         NewDeliverableRow(id, deliverables[id],
                                           ModelDump(data)))
           /\ lastOp' = Result("update_deliverable", id, data, "inserted")
    /\ nextDeliverableId' = nextDeliverableId + 1
    /\ UNCHANGED <<elements, nextElementId, element_dependencies>>

\* update_deliverable, second write: the old row is superseded
ItUpdateSupersede ==
    /\ lastOp.op = "update_deliverable"
    /\ lastOp.result = "inserted"
    /\ deliverables' = MarkSuperseded(deliverables, lastOp.id)
    /\ lastOp' = [lastOp EXCEPT !.result =
                      IF NeedsRerender(ModelDump(lastOp.arg)) THEN "tracking"
                      ELSE "ok"]
    /\ UNCHANGED <<elements, nextElementId, nextDeliverableId,
                   element_dependencies>>

\* refresh_deliverable (forced), first write: the refreshed row
ItRefreshWrite ==
    /\ ~Running
    /\ \E id \in KnownDeliverableIds :
           /\ Loadable(deliverables[id])
           /\ LET template == Templates[deliverables[id].template_id]
                  voice == Voices[deliverables[id].voice_id]
              IN deliverables' = [deliverables EXCEPT ![id] =
                    RefreshedRow(@, RefreshedVersions(template),
                        [s \in SectionNames(template) |->
                            RefreshSectionContent(BindingOf(template, s),
                                                  voice)],
                        voice)]
           /\ lastOp' = Result("refresh_deliverable", id, TRUE, "tracking")
    /\ UNCHANGED <<elements, nextElementId, nextDeliverableId,
                   element_dependencies>>

\* the operation in progress is abandoned between two of its writes
ItInterrupt ==
    /\ Running
    /\ lastOp' = [lastOp EXCEPT !.result = "interrupted"]
    /\ UNCHANGED <<elements, nextElementId, deliverables, nextDeliverableId,
                   element_dependencies>>

NextInterrupt ==
    \/ ItCreateElement
    \/ ItApproveSupersede
    \/ ItApproveApprove
    \/ ItCreateInsert
    \/ ItTrack
    \/ ItValidate
    \/ ItReturn
    \/ ItUpdateInsert
    \/ ItUpdateSupersede
    \/ ItRefreshWrite
    \/ ItInterrupt

SpecInterrupt == Init /\ [][NextInterrupt]_vars

\* ------------------------------------------------------------------------
\* Concurrent approve_element calls: two callers, each read and each write
\* of approve_element a step of its own; no lock is taken.  While calls are
\* in progress lastOp.arg holds, for each caller, its position (pc) and its
\* local variables element_id and existing_approved.
\* ------------------------------------------------------------------------
Callers == {1, 2}

IdleCaller == [pc |-> "idle", element_id |-> NoElement,
               existing_approved |-> NoElement]

Calls ==
    IF lastOp.op = "approve_element" THEN lastOp.arg
    ELSE [c \in Callers |-> IdleCaller]

NoCallInProgress == \A c \in Callers : Calls[c].pc = "idle"

RcCreateElement ==
    /\ NoCallInProgress
    /\ nextElementId <= MaxRaceElems
    /\ CreateElement("L1", "A", NextContent, <<1, 0>>, "draft")

\* approve_element: get_element and the status check
RcGetElement(c) ==
    /\ Calls[c].pc = "idle"
    /\ \E id \in KnownElementIds :
           /\ \A o \in Callers : Calls[o].element_id # id
           /\ lastOp' = Result("approve_element", c,
                   [Calls EXCEPT ![c] =
                       IF ApproveAllowed(elements[id])
                       THEN [pc |-> "checked", element_id |-> id,
                             existing_approved |-> NoElement]
                       ELSE IdleCaller],
                   IF ApproveAllowed(elements[id]) THEN "checked"
                   ELSE "InvalidStateTransition")
    /\ UNCHANGED <<elements, nextElementId, deliverables, nextDeliverableId,
                   element_dependencies>>

\* approve_element: list_elements and the search for the approved element
RcListElements(c) ==
    /\ Calls[c].pc = "checked"
    /\ lastOp' = Result("approve_element", c,
            [Calls EXCEPT ![c].pc = "listed",
                          ![c].existing_approved =
                              ExistingApproved(Calls[c].element_id)],
            "listed")
    /\ UNCHANGED <<elements, nextElementId, deliverables, nextDeliverableId,
                   element_dependencies>>

\* approve_element: the existing approved element is superseded
RcSupersede(c) ==
    /\ Calls[c].pc = "listed"
    /\ Calls[c].existing_approved # NoElement
    /\ elements' = [elements EXCEPT
                       ![Calls[c].existing_approved].status = "superseded"]
    /\ lastOp' = Result("approve_element", c,
                        [Calls EXCEPT ![c].pc = "superseding"], "superseding")
    /\ UNCHANGED <<nextElementId, deliverables, nextDeliverableId,
                   element_dependencies>>

\* approve_element: the draft is approved and the call returns
RcApprove(c) ==
    /\ \/ Calls[c].pc = "superseding"
       \/ /\ Calls[c].pc = "listed"
          /\ Calls[c].existing_approved = NoElement
    /\ elements' = [elements EXCEPT
                       ![Calls[c].element_id].status = "approved"]
    /\ lastOp' = Result("approve_element", c,
                        [Calls EXCEPT ![c] = IdleCaller], "ok")
    /\ UNCHANGED <<nextElementId, deliverables, nextDeliverableId,
                   element_dependencies>>

NextRace ==
    \/ RcCreateElement
    \/ \E c \in Callers : RcGetElement(c)
    \/ \E c \in Callers : RcListElements(c)
    \/ \E c \in Callers : RcSupersede(c)
    \/ \E c \in Callers : RcApprove(c)

SpecRace == Init /\ [][NextRace]_vars

\* ------------------------------------------------------------------------
\* Properties
\* ------------------------------------------------------------------------
SameLineage(i, j) ==
    /\ elements[i].layer_id = elements[j].layer_id
    /\ elements[i].name = elements[j].name

\* C1: every lineage (layer + name) holds at most one approved element.
AtMostOneApprovedPerLineage ==
    \A i, j \in DOMAIN elements :
        (/\ i # j
         /\ SameLineage(i, j)
         /\ elements[i].status = "approved")
        => elements[j].status # "approved"

\* C2: from every element the walk back through prev_element_id visits no id
\* twice and stops at an element that has no predecessor.
VersionChainEndsAtRoot ==
    \A id \in DOMAIN elements :
        LET chain == VersionChain(id, Cardinality(DOMAIN elements) + 1) IN
        /\ Len(chain) <= Cardinality(DOMAIN elements)
        /\ \A a, b \in DOMAIN chain : a # b => chain[a] # chain[b]
        /\ elements[chain[Len(chain)]].prev_element_id = NoElement

\* a state with a chain of three versions
VersionChainOfThree ==
    \E id \in DOMAIN elements :
        Len(VersionChain(id, Cardinality(DOMAIN elements) + 1)) = 3

\* C3: no two distinct elements have the same predecessor.
NoSharedPredecessor ==
    \A i, j \in DOMAIN elements :
        (i # j /\ elements[i].prev_element_id # NoElement)
        => elements[i].prev_element_id # elements[j].prev_element_id

\* C4: a successful approve leaves the element approved and every other
\* element of its lineage that was approved before the call superseded.
ApproveSupersedesLineage ==
    [][ (lastOp'.op = "approve_element" /\ lastOp'.result = "ok")
        => LET id == lastOp'.id IN
           /\ elements'[id].status = "approved"
           /\ \A j \in DOMAIN elements \ {id} :
                  (SameLineage(id, j) /\ elements[j].status = "approved")
                  => elements'[j].status = "superseded" ]_vars

RejectedTransitionChangesNothing ==
    [][ (/\ HasElement(lastOp'.id)
         /\ \/ /\ lastOp'.op = "update_element"
               /\ elements[lastOp'.id].status \in {"superseded", "archived"}
            \/ /\ lastOp'.op = "approve_element"
               /\ elements[lastOp'.id].status # "draft")
        => /\ lastOp'.result = "InvalidStateTransition"
           /\ elements' = elements
           /\ deliverables' = deliverables
           /\ element_dependencies' = element_dependencies ]_vars

\* the last operation was a rejected update of a superseded element
UpdateOfSupersededRejected ==
    /\ lastOp.op = "update_element"
    /\ lastOp.result = "InvalidStateTransition"
    /\ HasElement(lastOp.id)
    /\ elements[lastOp.id].status = "superseded"

\* C8: delete removes a draft, and only a draft; on any other status it fails
\* with InvalidStateTransition and the store is unchanged.
DeleteOnlyDraft ==
    [][ (lastOp'.op = "delete_element" /\ HasElement(lastOp'.id))
        => LET id == lastOp'.id IN
           IF elements[id].status = "draft"
           THEN /\ lastOp'.result = "ok"
                /\ DOMAIN elements' = DOMAIN elements \ {id}
                /\ \A j \in DOMAIN elements' : elements'[j] = elements[j]
           ELSE /\ lastOp'.result = "InvalidStateTransition"
                /\ elements' = elements
                /\ deliverables' = deliverables
                /\ element_dependencies' = element_dependencies ]_vars

\* the last operation was a rejected delete of an approved element
DeleteOfApprovedRejected ==
    /\ lastOp.op = "delete_element"
    /\ lastOp.result = "InvalidStateTransition"
    /\ HasElement(lastOp.id)
    /\ elements[lastOp.id].status = "approved"

\* The alert the claim expects for pinned element p and newer element e
ExpectedAlert(deliverable, p, e) ==
    [element_id |-> p, element_name |-> elements[p].name,
     old_version |-> deliverable.element_versions[p],
     new_version |-> elements[e].version,
     status |-> IF elements[e].status = "approved"
                THEN "update_available" ELSE "update_pending"]

\* pairs (pinned element, other element of its lineage, strictly newer than the
\* pinned version, approved or draft)
ExpectedAlertPairs(deliverable) ==
    {pe \in (DOMAIN deliverable.element_versions \cap DOMAIN elements)
              \X DOMAIN elements :
        /\ pe[2] # pe[1]
        /\ SameLineage(pe[1], pe[2])
        /\ IsNewerVersion(elements[pe[2]].version,
                          deliverable.element_versions[pe[1]])
        /\ elements[pe[2]].status \in {"approved", "draft"}}

\* C9: the alerts of a deliverable are exactly one alert per such pair, and no
\* other alert.
AlertsMatchLineagePairs ==
    \A d \in DOMAIN deliverables :
        LET alerts == CheckForUpdates(deliverables[d])
            pairs == ExpectedAlertPairs(deliverables[d])
            expected == {ExpectedAlert(deliverables[d], pe[1], pe[2]) : pe \in pairs}
        IN /\ Len(alerts) = Cardinality(pairs)
           /\ \A a \in Range(alerts) \cup expected :
                 Cardinality({i \in DOMAIN alerts : alerts[i] = a}) =
                 Cardinality({pe \in pairs :
                     ExpectedAlert(deliverables[d], pe[1], pe[2]) = a})

\* C10: a refresh of an existing deliverable is rejected with BlockedRefresh
\* exactly when force is false and an update_pending alert exists, and a
\* rejected refresh changes no row and no dependency edge.
RefreshBlockedExactlyOnPendingDraft ==
    [][ (lastOp'.op = "refresh_deliverable" /\ HasDeliverable(lastOp'.id))
        => LET alerts == CheckForUpdates(deliverables[lastOp'.id])
               pending == \E i \in DOMAIN alerts :
                             alerts[i].status = "update_pending"
           IN /\ (lastOp'.result = "BlockedRefresh")
                    <=> (lastOp'.arg = FALSE /\ pending)
              /\ lastOp'.result = "BlockedRefresh"
                    => /\ deliverables' = deliverables
                       /\ element_dependencies' = element_dependencies
                       /\ elements' = elements ]_vars

\* the last operation was a refresh rejected because of a pending draft
RefreshWasBlocked ==
    /\ lastOp.op = "refresh_deliverable"
    /\ lastOp.result = "BlockedRefresh"
    /\ lastOp.arg = FALSE
    /\ HasDeliverable(lastOp.id)

\* a pinned element of the deliverable has a newer draft in its lineage
PinnedHasNewerDraft(deliverable) ==
    \E p \in DOMAIN deliverable.element_versions, e \in DOMAIN elements :
        /\ HasElement(p)
        /\ elements[e].status = "draft"
        /\ SameLineage(e, p)
        /\ IsNewerVersion(elements[e].version, deliverable.element_versions[p])

\* the element approved by the last operation was, until then, a draft newer
\* than an element the deliverable pins, in that element's lineage: a refresh
\* without force was blocked by it
ApprovedPendingDraftOf(deliverable) ==
    /\ lastOp.op = "approve_element"
    /\ lastOp.result = "ok"
    /\ \E p \in DOMAIN deliverable.element_versions :
           /\ HasElement(p)
           /\ p # lastOp.id
           /\ SameLineage(lastOp.id, p)
           /\ IsNewerVersion(elements[lastOp.id].version,
                             deliverable.element_versions[p])

\* the sections whose bound elements all belong to the lineage of element e
SectionsOfLineage(template, e) ==
    {s \in SectionNames(template) :
        LET ids == Range(BindingOf(template, s).element_ids)
        IN /\ \E id \in ids : HasElement(id)
           /\ \A id \in ids : HasElement(id) => SameLineage(id, e)}

\* C11: once the draft that blocked a refresh is approved and no pinned
\* element has a newer draft, the refresh without force succeeds, the
\* sections of that lineage are composed from the newly approved element, and
\* the deliverable keeps its id and version.
RetryAfterApproveSucceeds ==
    [][ ( /\ lastOp'.op = "refresh_deliverable"
          /\ lastOp'.arg = FALSE
          /\ HasDeliverable(lastOp'.id)
          /\ ApprovedPendingDraftOf(deliverables[lastOp'.id])
          /\ ~PinnedHasNewerDraft(deliverables[lastOp'.id]) )
        => LET d == lastOp'.id
               template == Templates[deliverables[d].template_id]
           IN /\ lastOp'.result = "ok"
              /\ DOMAIN deliverables' = DOMAIN deliverables
              /\ deliverables'[d].version = deliverables[d].version
              /\ lastOp.id \in DOMAIN deliverables'[d].element_versions
              /\ \A s \in SectionsOfLineage(template, lastOp.id) :
                     \A i \in DOMAIN deliverables'[d].rendered_content[s].parts :
                        deliverables'[d].rendered_content[s].parts[i]
                            = elements[lastOp.id].content ]_vars

\* the approved elements of the lineage of element b
ApprovedOfLineage(b) ==
    {e \in DOMAIN elements :
        elements[e].status = "approved" /\ SameLineage(e, b)}

\* C12: a successful refresh pins, for every bound element whose lineage has
\* an approved element, the approved element of that lineage with the
\* greatest version, versions compared as integer tuples.
RefreshPinsLatestApprovedOfLineage ==
    [][ ( /\ lastOp'.op = "refresh_deliverable"
          /\ lastOp'.result = "ok" )
        => LET d == lastOp'.id
               template == Templates[deliverables[d].template_id]
           IN \A b \in BoundElementIds(template) :
                 (HasElement(b) /\ ApprovedOfLineage(b) # {})
                 => \E e \in ApprovedOfLineage(b) :
                       /\ e \in DOMAIN deliverables'[d].element_versions
                       /\ deliverables'[d].element_versions[e]
                              = elements[e].version
                       /\ \A f \in ApprovedOfLineage(b) :
                              ~IsNewerVersion(elements[f].version,
                                              elements[e].version) ]_vars

\* C13: a successful refresh inserts no deliverable row, leaves every other
\* row as it was, and changes no field of the refreshed row other than
\* element_versions and rendered_content.
RefreshWritesOnlySnapshot ==
    [][ ( /\ lastOp'.op = "refresh_deliverable"
          /\ lastOp'.result = "ok" )
        => LET d == lastOp'.id IN
           /\ DOMAIN deliverables' = DOMAIN deliverables
           /\ nextDeliverableId' = nextDeliverableId
           /\ \A o \in DOMAIN deliverables :
                  o # d => deliverables'[o] = deliverables[o]
           /\ [deliverables'[d] EXCEPT
                  !.element_versions = deliverables[d].element_versions,
                  !.rendered_content = deliverables[d].rendered_content]
                 = deliverables[d] ]_vars

\* a refresh succeeded and pinned an element the template does not bind: the
\* snapshot was rewritten
RefreshRepinned ==
    /\ lastOp.op = "refresh_deliverable"
    /\ lastOp.result = "ok"
    /\ \E e \in DOMAIN deliverables[lastOp.id].element_versions :
           e \notin BoundElementIds(Templates[deliverables[lastOp.id].template_id])

\* C14: an update that sets only voice_id, on a deliverable that exists,
\* succeeds; it inserts a row with the next version, the updated deliverable
\* as its predecessor and the new voice, and changes nothing of the updated
\* deliverable but its status, which becomes superseded.
VoiceUpdateCreatesVersion ==
    [][ ( /\ lastOp'.op = "update_deliverable"
          /\ lastOp'.arg.keys = {"voice_id"}
          /\ HasDeliverable(lastOp'.id) )
        => LET d == lastOp'.id
               new == nextDeliverableId
           IN /\ lastOp'.result = "ok"
              /\ DOMAIN deliverables' = DOMAIN deliverables \cup {new}
              /\ deliverables'[new].version = deliverables[d].version + 1
              /\ deliverables'[new].prev_deliverable_id = d
              /\ deliverables'[new].voice_id = lastOp'.arg.voice_id
              /\ deliverables'[d] =
                     [deliverables[d] EXCEPT !.status = "superseded"] ]_vars

\* C15: an update whose patch sets only name and/or status, on a deliverable
\* that exists, inserts no row, keeps the deliverable's version, and makes no
\* deliverable superseded.
NameStatusUpdateCreatesNoVersion ==
    [][ ( /\ lastOp'.op = "update_deliverable"
          /\ lastOp'.arg.keys # {}
          /\ lastOp'.arg.keys \subseteq {"name", "status"}
          /\ HasDeliverable(lastOp'.id) )
        => /\ DOMAIN deliverables' = DOMAIN deliverables
           /\ deliverables'[lastOp'.id].version = deliverables[lastOp'.id].version
           /\ \A d \in DOMAIN deliverables :
                  deliverables'[d].status = "superseded"
                      => deliverables[d].status = "superseded" ]_vars

\* the version-1 ancestor of a deliverable
RECURSIVE RootOf(_)
RootOf(d) ==
    IF deliverables[d].prev_deliverable_id = NoDeliverable THEN d
    ELSE RootOf(deliverables[d].prev_deliverable_id)

\* the deliverables of the version chain a deliverable belongs to
ChainOf(d) == {o \in DOMAIN deliverables : RootOf(o) = RootOf(d)}

\* C16: the version history of any deliverable of a chain is returned, lists
\* every deliverable of the chain exactly once, links each entry to the next
\* by its predecessor reference, and ends at the version-1 root.
VersionHistoryListsChain ==
    [][ ( /\ lastOp'.op = "get_deliverable_versions"
          /\ HasDeliverable(lastOp'.id) )
        => /\ lastOp'.result = "ok"
           /\ LET versions == lastOp'.arg IN
              /\ Len(versions) = Cardinality(ChainOf(lastOp'.id))
              /\ Range(versions) = ChainOf(lastOp'.id)
              /\ \A i \in 1..(Len(versions) - 1) :
                     deliverables[versions[i]].prev_deliverable_id
                         = versions[i + 1]
              /\ deliverables[versions[Len(versions)]].prev_deliverable_id
                     = NoDeliverable
              /\ deliverables[versions[Len(versions)]].version = 1 ]_vars

\* the composed texts of a stored section value
SectionParts(value) ==
    IF IsStr(value) THEN value.parts ELSE value.content.parts

\* the deliverable a step composed: the one created, the new version of a
\* recomposing update, or the one refreshed; NoDeliverable for other steps
Composed ==
    IF lastOp'.op = "create_deliverable" THEN lastOp'.id
    ELSE IF /\ lastOp'.op = "update_deliverable"
            /\ DOMAIN deliverables' # DOMAIN deliverables
            /\ NeedsRerender(ModelDump(lastOp'.arg))
         THEN nextDeliverableId
    ELSE IF lastOp'.op = "refresh_deliverable" /\ lastOp'.result = "ok"
         THEN lastOp'.id
    ELSE NoDeliverable

\* C17: every compose step (create, recomposing update, refresh) renders only
\* content of elements that are approved at that moment.
ComposeUsesApprovedOnly ==
    [][ Composed # NoDeliverable
        => \A s \in DOMAIN deliverables'[Composed].rendered_content :
              LET parts == SectionParts(deliverables'[Composed].rendered_content[s])
              IN \A i \in DOMAIN parts :
                    \E e \in DOMAIN elements :
                       /\ elements[e].status = "approved"
                       /\ elements[e].content = parts[i] ]_vars

\* a recomposing update inserted a version while one bound element was
\* approved and another was not
RecomposedBesideUnapproved ==
    /\ lastOp.op = "update_deliverable"
    /\ NeedsRerender(ModelDump(lastOp.arg))
    /\ nextDeliverableId - 1 \in DOMAIN deliverables
    /\ deliverables[nextDeliverableId - 1].prev_deliverable_id = lastOp.id
    /\ \E s \in DOMAIN deliverables[nextDeliverableId - 1].rendered_content :
           SectionParts(deliverables[nextDeliverableId - 1].rendered_content[s])
               # <<>>
    /\ \E e \in DOMAIN elements : elements[e].status # "approved"

\* the operations that compose nothing
NonComposingOps ==
    {"create_element", "update_element", "approve_element", "delete_element",
     "validate_deliverable", "get_deliverable_with_alerts",
     "get_deliverable_versions"}

\* C18: element_versions and rendered_content of an existing deliverable
\* change only in a refresh of that deliverable; element operations,
\* validation, alert computation and version history leave them unchanged.
SnapshotChangesOnlyByCompose ==
    [][ /\ \A d \in DOMAIN deliverables :
              \/ /\ d \in DOMAIN deliverables'
                 /\ deliverables'[d].element_versions
                        = deliverables[d].element_versions
                 /\ deliverables'[d].rendered_content
                        = deliverables[d].rendered_content
              \/ /\ lastOp'.op = "refresh_deliverable"
                 /\ lastOp'.id = d
        /\ lastOp'.op \in NonComposingOps
              => \A d \in DOMAIN deliverables :
                    /\ d \in DOMAIN deliverables'
                    /\ deliverables'[d].element_versions
                           = deliverables[d].element_versions
                    /\ deliverables'[d].rendered_content
                           = deliverables[d].rendered_content ]_vars

\* an approval superseded an element that a deliverable pins: the deliverable
\* still pins it
PinnedElementSuperseded ==
    /\ lastOp.op = "approve_element"
    /\ lastOp.result = "ok"
    /\ lastOp.arg # NoElement
    /\ \E d \in DOMAIN deliverables :
           /\ lastOp.arg \in DOMAIN deliverables[d].element_versions
           /\ elements[lastOp.arg].status = "superseded"

\* C19: a successful refresh that directly follows a successful refresh of the
\* same deliverable leaves rendered_content and element_versions as the
\* first one left them.
RefreshIdempotent ==
    [][ ( /\ lastOp.op = "refresh_deliverable"
          /\ lastOp.result = "ok"
          /\ lastOp'.op = "refresh_deliverable"
          /\ lastOp'.result = "ok"
          /\ lastOp'.id = lastOp.id )
        => /\ deliverables'[lastOp.id].rendered_content
                 = deliverables[lastOp.id].rendered_content
           /\ deliverables'[lastOp.id].element_versions
                 = deliverables[lastOp.id].element_versions ]_vars

\* a refresh succeeded and left pins that differ from those of creation: a
\* second refresh starts from a refreshed row
RefreshedOnceWithNewPins ==
    /\ lastOp.op = "refresh_deliverable"
    /\ lastOp.result = "ok"
    /\ deliverables[lastOp.id].element_versions
           # PinnedVersions(Templates[deliverables[lastOp.id].template_id])
    /\ deliverables[lastOp.id].element_versions # <<>>

\* C20: right after a successful refresh without force, the refreshed
\* deliverable has no alert.
NoAlertsAfterRefresh ==
    ( /\ lastOp.op = "refresh_deliverable"
      /\ lastOp.result = "ok"
      /\ lastOp.arg = FALSE )
    => CheckForUpdates(deliverables[lastOp.id]) = <<>>

\* C21: a successful create_deliverable stores a row with version 1 and no
\* predecessor, whose element_versions maps every existing element bound by
\* the template to the version it has at that moment.
CreatePinsBoundElements ==
    [][ ( /\ lastOp'.op = "create_deliverable"
          /\ lastOp'.result = "ok" )
        => LET d == lastOp'.id
               bound == {e \in BoundElementIds(Templates[deliverables'[d].template_id]) :
                            e \in DOMAIN elements}
           IN /\ d \notin DOMAIN deliverables
              /\ deliverables'[d].version = 1
              /\ deliverables'[d].prev_deliverable_id = NoDeliverable
              /\ DOMAIN deliverables'[d].element_versions = bound
              /\ \A e \in bound :
                     deliverables'[d].element_versions[e] = elements[e].version
        ]_vars

\* a deliverable was created while a bound element was not approved
CreatedWithUnapprovedBound ==
    /\ lastOp.op = "create_deliverable"
    /\ lastOp.result = "ok"
    /\ \E e \in DOMAIN deliverables[lastOp.id].element_versions :
           /\ HasElement(e)
           /\ elements[e].status # "approved"

\* C22: right after a successful create_deliverable, the created deliverable
\* has no alert.
NoAlertsAfterCreate ==
    ( /\ lastOp.op = "create_deliverable"
      /\ lastOp.result = "ok" )
    => CheckForUpdates(deliverables[lastOp.id]) = <<>>

\* C23: lineage is (layer, name).  An approval supersedes only elements of the
\* approved element's lineage; every alert of a pinned element stems from an
\* element of its lineage; a refresh pins only elements of the lineages of
\* the bound elements.
OtherLayerNeverTouched ==
    [][ /\ ( lastOp'.op = "approve_element" /\ lastOp'.result = "ok" )
           => \A e \in DOMAIN elements :
                 ( /\ e # lastOp'.id
                   /\ elements'[e].status # elements[e].status )
                 => SameLineage(e, lastOp'.id)
        /\ ( lastOp'.op = "get_deliverable_with_alerts"
             /\ lastOp'.result = "ok" )
           => \A i \in DOMAIN lastOp'.arg :
                 \E e \in DOMAIN elements :
                    /\ SameLineage(e, lastOp'.arg[i].element_id)
                    /\ e # lastOp'.arg[i].element_id
                    /\ elements[e].version = lastOp'.arg[i].new_version
                    /\ elements[e].status \in {"approved", "draft"}
        /\ ( lastOp'.op = "refresh_deliverable" /\ lastOp'.result = "ok" )
           => \A e \in DOMAIN deliverables'[lastOp'.id].element_versions :
                 \E b \in BoundElementIds(
                              Templates[deliverables[lastOp'.id].template_id]) :
                    HasElement(b) /\ SameLineage(e, b) ]_vars


\* a request that changes the story model without a template, or with a
\* template of another story model
MismatchedOverride(update_data) ==
    /\ "story_model_id" \in update_data.keys
    /\ \/ "template_id" \notin update_data.keys
       \/ /\ update_data.template_id \in DOMAIN Templates
          /\ Templates[update_data.template_id].story_model_id
                 # update_data.story_model_id

\* C24: an update of a stored deliverable whose patch supplies story_model_id
\* without a template_id, or with a template_id of another story model, fails
\* with the incompatibility error (a ValueError in the code), inserts no row,
\* supersedes nothing and records no edge
MismatchedOverrideRejected ==
    [][(/\ lastOp'.op = "update_deliverable"
        /\ HasDeliverable(lastOp'.id)
        /\ Loadable(deliverables[lastOp'.id])
        /\ MismatchedOverride(lastOp'.arg))
       => /\ lastOp'.result = "ValueError"
          /\ deliverables' = deliverables
          /\ nextDeliverableId' = nextDeliverableId
          /\ element_dependencies' = element_dependencies]_vars

\* an update naming a template of another story model was rejected for a
\* deliverable that an update without the story model would have versioned
MismatchedTemplateRejected ==
    /\ lastOp.op = "update_deliverable"
    /\ HasDeliverable(lastOp.id)
    /\ Loadable(deliverables[lastOp.id])
    /\ Serializable(deliverables[lastOp.id].validation_log)
    /\ MismatchedOverride(lastOp.arg)
    /\ "template_id" \in lastOp.arg.keys
    /\ lastOp.result = "ValueError"

\* a request that names a template, alone or with that template's story model
TemplateSwitch(update_data) ==
    /\ "template_id" \in update_data.keys
    /\ update_data.template_id \in DOMAIN Templates
    /\ "story_model_id" \in update_data.keys
           => Templates[update_data.template_id].story_model_id
                  = update_data.story_model_id

\* C25: an update of a stored deliverable whose patch names a template T,
\* alone or with T's own story model, succeeds and inserts a new version whose
\* template is T, whose story model is T's and whose rendered_content has
\* exactly the sections of T's bindings
TemplateSwitchYieldsTemplateVersion ==
    [][(/\ lastOp'.op = "update_deliverable"
        /\ HasDeliverable(lastOp'.id)
        /\ Loadable(deliverables[lastOp'.id])
        /\ TemplateSwitch(lastOp'.arg))
       => /\ lastOp'.result = "ok"
          /\ nextDeliverableId' = nextDeliverableId + 1
          /\ LET T == lastOp'.arg.template_id
                 row == deliverables'[nextDeliverableId]
             IN /\ row.template_id = T
                /\ row.story_model_id = Templates[T].story_model_id
                /\ DOMAIN row.rendered_content = SectionNames(Templates[T])
                /\ row.version = deliverables[lastOp'.id].version + 1]_vars

\* every element id pinned in a stored deliverable D has D's id and D's
\* template id among its dependencies
PinnedElementsTracked ==
    \A d \in DOMAIN deliverables :
        \A e \in DOMAIN deliverables[d].element_versions :
            LET deps == GetElementDependencies(element_dependencies, e)
            IN /\ d \in deps.deliverables
               /\ deliverables[d].template_id \in deps.templates

\* C26: after a completed create_deliverable, refresh_deliverable or
\* update_deliverable that wrote a deliverable row, for every deliverable D
\* and every element id pinned in D.element_versions the dependencies of the
\* element contain D's id and D's template id
PinnedTrackedAfterCompleted ==
    [][(/\ lastOp'.op \in {"create_deliverable", "refresh_deliverable",
                           "update_deliverable"}
        /\ lastOp'.result = "ok"
        /\ deliverables' # deliverables)
       => PinnedElementsTracked']_vars

\* C27: a refresh_deliverable that reaches its tracking loop does not raise,
\* whether or not the edges it records exist already, and leaves exactly the
\* edges there were plus those of its pins: recording an existing
\* (element, template, deliverable) edge is not an error and changes nothing
TrackingIdempotent ==
    [][(/\ lastOp'.op = "refresh_deliverable"
        /\ lastOp'.result \in {"ok", "APIError"})
       => LET d == lastOp'.id
              rows == TrackedUsage(deliverables'[d].element_versions,
                                   deliverables'[d].template_id, d)
          IN /\ lastOp'.result = "ok"
             /\ element_dependencies' = element_dependencies \cup rows
             /\ rows \subseteq element_dependencies
                    => element_dependencies' = element_dependencies]_vars

\* a refresh recorded an edge that existed already and completed
RecordedExistingEdge ==
    /\ lastOp.op = "refresh_deliverable"
    /\ lastOp.result = "ok"
    /\ lastOp.ignored # {}
    /\ lastOp.ignored \subseteq element_dependencies

\* the row a create or update step is to return: the one create inserted, the
\* one update builds from the stored row and the patch
RowToReturn ==
    IF lastOp'.op = "create_deliverable" THEN deliverables'[nextDeliverableId]
    ELSE NewDeliverableRow(lastOp'.id, deliverables[lastOp'.id],
                           ModelDump(lastOp'.arg))

\* the rule results of a row, evaluated against its own content
OwnValidationLog(row) ==
    ValidationLog(Templates[row.template_id], row.instance_data)

\* C28: a create_deliverable, or an update_deliverable of a stored deliverable
\* with a compatible patch, whose deliverable has a failing validation rule
\* completes, and the row it stores holds in validation_log the rule results
\* of its own instance_data and rendered_content
FailingRuleNeverFailsOperation ==
    [][(/\ lastOp'.op \in {"create_deliverable", "update_deliverable"}
        /\ lastOp'.op = "update_deliverable"
              => /\ HasDeliverable(lastOp'.id)
                 /\ Loadable(deliverables[lastOp'.id])
                 /\ ~IncompatibleOverride(ModelDump(lastOp'.arg))
        /\ \E i \in DOMAIN OwnValidationLog(RowToReturn) :
               ~OwnValidationLog(RowToReturn)[i].passed)
       => /\ lastOp'.result = "ok"
          /\ nextDeliverableId' = nextDeliverableId + 1
          /\ deliverables'[nextDeliverableId].validation_log
                 = OwnValidationLog(RowToReturn)]_vars

\* the text composed for a section: the contents of its approved elements
ComposedText(template, s) ==
    ComposeSection(SelectSeq(BindingOf(template, s).element_ids,
        LAMBDA id : HasElement(id) /\ elements[id].status = "approved"))

\* the text recovered locally when the transformation fails: the rule-based
\* rewrite when the voice has rules, the composed text otherwise
RecoveredText(parts, voice) ==
    IF voice.rules THEN ApplyVoice(parts) ELSE Untransformed(parts)

\* the sections of a row for which a transformation was attempted
TransformedSections(row) ==
    {s \in SectionNames(Templates[row.template_id]) :
        ComposedText(Templates[row.template_id], s) # <<>>}

\* C29: when the transformation fails for a section during the compose step
\* of a create_deliverable, or of a recomposing update_deliverable of a stored
\* deliverable with a compatible patch, the operation completes, the stored
\* section holds the locally recovered text and a transformation note is
\* recorded for the section
TransformFailureRecovered ==
    [][(/\ lastOp'.op \in {"create_deliverable", "update_deliverable"}
        /\ lastOp'.op = "update_deliverable"
              => /\ HasDeliverable(lastOp'.id)
                 /\ Loadable(deliverables[lastOp'.id])
                 /\ ~IncompatibleOverride(ModelDump(lastOp'.arg))
                 /\ NeedsRerender(ModelDump(lastOp'.arg))
        /\ TransformedSections(RowToReturn) # {})
       => /\ lastOp'.result = "ok"
          /\ nextDeliverableId' = nextDeliverableId + 1
          /\ LET row == deliverables'[nextDeliverableId]
                 template == Templates[row.template_id]
             IN \A s \in TransformedSections(RowToReturn) :
                   /\ row.rendered_content[s]
                          = RecoveredText(ComposedText(template, s),
                                          Voices[row.voice_id])
                   /\ s \in DOMAIN row.metadata.transformation_notes]_vars

\* the same for create_deliverable alone
CreateRecoversTransformFailure ==
    [][(/\ lastOp'.op = "create_deliverable"
        /\ TransformedSections(RowToReturn) # {})
       => /\ lastOp'.result = "ok"
          /\ LET row == deliverables'[nextDeliverableId]
                 template == Templates[row.template_id]
             IN \A s \in TransformedSections(RowToReturn) :
                   /\ row.rendered_content[s]
                          = RecoveredText(ComposedText(template, s),
                                          Voices[row.voice_id])
                   /\ s \in DOMAIN row.metadata.transformation_notes]_vars

\* C30: for a section whose resolved profile is Preserve, whatever the voice
\* and the constraints (max_words included), the transformed text is the
\* composed text and the external transformation service is not called
PreserveReturnsVerbatim ==
    ( /\ lastOp.op = "apply_voice_with_profile"
      /\ GetProfileForSection(lastOp.arg.section_name,
                              lastOp.arg.story_model_override,
                              lastOp.arg.template_override).name = "Preserve" )
    => /\ lastOp.result.content = lastOp.arg.content
       /\ ~lastOp.result.llm_called

\* the number a version of up to three parts stands for when every part is
\* below 100: the parts as digits in base 100, missing parts zero
VersionWeight(version) ==
    LET p == PadVersion(version, 3) IN p[1] * 10000 + p[2] * 100 + p[3]

\* C31: the comparator orders version strings as integer tuples padded with
\* zeros: a is newer than b exactly when a's tuple is the greater, so 1.10 is
\* newer than 1.9, 2.0 is newer than 1.9, and 1.0 is neither newer nor older
\* than 1.0 or 1
ComparatorOrdersAsIntegers ==
    lastOp.op = "is_newer_version"
    => lastOp.result
          = (VersionWeight(lastOp.arg[1]) > VersionWeight(lastOp.arg[2]))

\* 1.10 was compared with 1.9 and found newer
TenNewerThanNine ==
    /\ lastOp.op = "is_newer_version"
    /\ lastOp.arg = <<(<<1, 10>>), (<<1, 9>>)>>
    /\ lastOp.result = TRUE

\* the five W fields
FiveWs == {"who", "what", "when", "where", "why"}

\* a text without any placeholder
NoPlaceholders(text) ==
    \A f \in DOMAIN Placeholder : ~Contains(text, Placeholder[f])

\* the pieces a synthesized lede is put together with
LedeSeparators == {", ", " -- ", " ", "."}

\* C32: with the five_ws strategy and element content without placeholders,
\* the lede is built only from the W values present in instance_data: every
\* piece of it is a separator or comes from the value of a present field (an
\* absent field contributes no text), and {who: Acme, what: ships v2,
\* when: today} yields exactly "today -- Acme ships v2."
FiveWsUsesOnlyPresentFields ==
    ( /\ lastOp.op = "compose_section"
      /\ lastOp.arg.strategy = "five_ws"
      /\ NoPlaceholders(lastOp.arg.bound_elements[1].content) )
    => /\ \A i \in DOMAIN lastOp.result :
             \/ lastOp.result[i] \in LedeSeparators
             \/ \E f \in lastOp.arg.instance_data.keys \cap FiveWs :
                    Contains(lastOp.arg.instance_data.value[f],
                             lastOp.result[i])
       /\ lastOp.arg.instance_data.keys = {"who", "what", "when"}
             => lastOp.result
                   = <<"today", " -- ", "Acme", " ", "ships v2", ".">>

\* the example of the five_ws strategy alone
FiveWsExample ==
    ( /\ lastOp.op = "compose_section"
      /\ lastOp.arg.strategy = "five_ws"
      /\ NoPlaceholders(lastOp.arg.bound_elements[1].content)
      /\ lastOp.arg.instance_data.keys = {"who", "what", "when"} )
    => lastOp.result = <<"today", " -- ", "Acme", " ", "ships v2", ".">>

\* C33: when all five W fields are present in instance_data, the composed
\* strategy returns the lede the five_ws strategy returns for the same
\* instance_data and an element without placeholders
ComposedEqualsFiveWs ==
    ( /\ lastOp.op = "compose_section"
      /\ lastOp.arg.strategy = "composed"
      /\ FiveWs \subseteq lastOp.arg.instance_data.keys
      /\ NoPlaceholders(lastOp.arg.bound_elements[1].content) )
    => lastOp.result = ComposeSectionWith("five_ws", lastOp.arg.bound_elements,
                                          lastOp.arg.instance_data)

\* C34: with the full_content strategy no placeholder of a key of
\* instance_data is left in the composed text, whatever the field name
FullContentInjectsEveryField ==
    ( /\ lastOp.op = "compose_section"
      /\ lastOp.arg.strategy = "full_content" )
    => \A f \in lastOp.arg.instance_data.keys :
          ~Contains(lastOp.result, Placeholder[f])

\* every deliverable that another deliverable names as its predecessor is
\* superseded
SuccessorsSuperseded ==
    \A d \in DOMAIN deliverables :
        (\E n \in DOMAIN deliverables :
            deliverables[n].prev_deliverable_id = d)
        => deliverables[d].status = "superseded"

\* C35: whenever create_deliverable, update_deliverable, refresh_deliverable
\* or approve_element is abandoned between two of its store writes, every
\* deliverable that has a successor is superseded and every lineage has at
\* most one approved element
InterruptedStoreValid ==
    lastOp.result = "interrupted"
    => /\ SuccessorsSuperseded
       /\ AtMostOneApprovedPerLineage

\* an update_deliverable step that composed the sections again and inserted
\* the new row
RecomposingUpdate ==
    /\ lastOp'.op = "update_deliverable"
    /\ nextDeliverableId' # nextDeliverableId
    /\ NeedsRerender(ModelDump(lastOp'.arg))

\* C36: the row a recomposing update_deliverable inserts holds one text per
\* section of its template, as the rows of create_deliverable do, so the row
\* is read back and returned
RecomposedRowHasTextSections ==
    [][RecomposingUpdate
       => /\ Loadable(deliverables'[nextDeliverableId])
          /\ lastOp'.result = "ok"]_vars

\* the deliverables that name d as their predecessor
SuccessorsOf(d) ==
    {n \in DOMAIN deliverables : deliverables[n].prev_deliverable_id = d}

\* C37: each deliverable is the predecessor of at most one other deliverable,
\* and two deliverables with the same predecessor never exist, so no two
\* deliverables of one chain carry the same version
PredecessorOfAtMostOne ==
    \A d \in DOMAIN deliverables : Cardinality(SuccessorsOf(d)) <= 1

\* C38: after completed create_deliverable, update_deliverable and
\* refresh_deliverable operations, every deliverable that has a successor has
\* status superseded
PredecessorsAreSuperseded ==
    \A d \in DOMAIN deliverables :
        SuccessorsOf(d) # {} => deliverables[d].status = "superseded"

\* a deliverable that has a successor was refreshed
RefreshedPredecessor ==
    /\ lastOp.op = "refresh_deliverable"
    /\ lastOp.result = "ok"
    /\ SuccessorsOf(lastOp.id) # {}

\* C39: no update_element, approve_element or delete_element step returns an
\* approved element to draft, or a superseded element to approved or draft
StatusNeverMovesBack ==
    [][lastOp'.op \in {"update_element", "approve_element", "delete_element"}
       => \A i \in DOMAIN elements \cap DOMAIN elements' :
             /\ elements[i].status = "approved"
                    => elements'[i].status # "draft"
             /\ elements[i].status = "superseded"
                    => elements'[i].status \notin {"draft", "approved"}]_vars

\* approve_element was refused on a superseded element, which stays superseded
ApproveOfSupersededRefused ==
    /\ lastOp.op = "approve_element"
    /\ lastOp.result = "InvalidStateTransition"
    /\ HasElement(lastOp.id)
    /\ elements[lastOp.id].status = "superseded"

\* C40: when two approve_element calls on two different drafts of one
\* lineage have interleaved their reads and writes and both have returned,
\* the lineage holds at most one approved element
InterleavedApprovalsKeepOneApproved ==
    (lastOp.op = "approve_element" /\ NoCallInProgress)
    => \A i, j \in DOMAIN elements :
          (i # j /\ SameLineage(i, j) /\ elements[i].status = "approved")
          => elements[j].status # "approved"
====
